---------------------------- MODULE Spec2Model ----------------------------
(***************************************************************************)
(* Chord-recognition pipeline of the chord detector: pitch classifier,     *)
(* chord matchers, peak/fundamental extractor and the chroma-based         *)
(* detector with its temporal stabilizer.                                  *)
(*                                                                         *)
(* Numbers.  Frequencies are kept as integers in units of 1/fftSize Hz, so *)
(* that the bin frequency i*sampleRate/(bufferLength*2) of a 1024-bin      *)
(* frame is the integer i*sampleRate.  Confidences are kept in thousandths *)
(* (0.9 is 900), products rounded down.  null is the string "null" (for a  *)
(* chord: the record Null), undefined the string "undefined".              *)
(***************************************************************************)
EXTENDS Integers, Sequences, FiniteSets, TLC

VARIABLES
    freq,               \* classifier: the frequency handed to it
    note,               \* classifier: the {note, octave} frequencyToNoteWithOctave returned
    chromaIndex,        \* classifier: <<the index frequencyToChromaIndex returned>>
    notes,              \* matcher: the detected notes handed to it
    matcher,            \* matcher: which identification ran last
    chord,              \* matcher: the chord it returned
    sampleRate,         \* extractor: audioContext.sampleRate
    frequencyData,      \* extractor: the frame handed to it
    extracted,          \* extractor: findFundamentalFrequencies has run
    fundamentals,       \* extractor: the frequencies it returned
    chromaBuffer,       \* detector: the votes kept, oldest first
    previousChroma,     \* detector: the chroma vector of the previous frame
    consecutiveChanges, \* detector: the change gate's counter
    currentChord,       \* detector: the stable chord's name, "null" for none
    chordConfidence,    \* detector: the stable chord's confidence
    chordStability,     \* detector: the stable chord's stability counter
    returned,           \* detector: what the last detectChord returned
    vote,               \* history: the vote the last step cast, Null for none
    run,                \* history: the chord of the latest votes and how many in a row
    prevRun,            \* history: the run of votes before that one
    harmony,            \* environment: what the last frame sounded
    harmonyChanges,     \* environment: how often the harmony has changed
    steady,             \* environment: once the harmony is there to stay, the
                        \* harmony before it and the frames it has sounded since,
                        \* for as long as detectChord has not returned it
    gate,               \* history: whether the last detectSpectralChange reported a
                        \* significant change, and on how many frames in a row,
                        \* up to and with the last, the change exceeded the threshold
    now,                \* renderer: performance.now(), in ms
    isRunning,          \* renderer: the stream is being captured
    multiChordMode,     \* renderer: detection by frequency ranges is on
    lastChordDetectionTime, \* renderer: time of the last detection tick
    previousSpectrum,   \* renderer: "null" until detectOnset has seen a frame
    lastOnsetTime,      \* renderer: time of the last onset
    chordVotes,         \* renderer: the Map of vote times per chord, in insertion order
    currentStableChord, \* renderer: the chord the votes agree on, "null" for none
    lastStableChordTime,\* renderer: when currentStableChord was set
    lastChord,          \* renderer: the chord last added to the ticker
    chordBuffer,        \* renderer: the chords waiting for their delayed display
    currentDisplayedChord, \* renderer: the chord on display, "null" for none
    sampled,            \* history: time of the last matcher run, or of the last
                        \* start or change of mode if that came later
    startedAt,          \* history: time of the last startDetection
    polled,             \* history: what getStableChord returned in the last step
    beatHistory,        \* tempo: times of the beats of the last seconds, oldest first
    lastBeatTime,       \* tempo: time of the last beat
    bpm,                \* tempo: the tempo in beats per minute
    sampleInterval,     \* tempo: ms between two samples, in thousandths; 0 for none
    lastSampleTime,     \* tempo: time of the last sample
    clock,              \* tempo: performance.now() at the last frame, in ms
    tempoCall,          \* history: what the last frame did to the tempo
    managerPreviousSpectrum, \* AudioManager: previousSpectrum, <<"null">> at first
    managerLastOnsetTime,    \* AudioManager: lastOnsetTime
    onsetTimes,         \* history: the times at which detectOnset reported an onset
    onsetCall,          \* history: the last call of detectOnset
    calculatedChroma,   \* chroma: what calculateChromaFromFrequency returned, <<>> at first
    renormalized,       \* chroma: the normalizedChroma of analyzeChromaForChord
    starting,           \* loop: calls of startDetection waiting for getUserMedia
    timers,             \* loop: timers of onDeviceChange that have not fired yet
    scheduled,          \* loop: the ids of the animation frame callbacks requested
    animationId,        \* loop: the id kept for cancelAnimationFrame, 0 for null
    ticked              \* history: whether the step was a callback of processAudio
                        \* and if so whether it ran the pipeline or returned at once

classifierVars == <<freq, note, chromaIndex>>
matcherVars == <<notes, matcher, chord>>
extractorVars == <<sampleRate, frequencyData, extracted, fundamentals>>
detectorVars == <<chromaBuffer, previousChroma, consecutiveChanges, currentChord,
                  chordConfidence, chordStability, returned, vote, run, prevRun,
                  harmony, harmonyChanges, steady, gate>>
rendererVars == <<now, isRunning, multiChordMode, lastChordDetectionTime,
                  previousSpectrum, lastOnsetTime, chordVotes, currentStableChord,
                  lastStableChordTime, lastChord, chordBuffer, currentDisplayedChord,
                  sampled, startedAt, polled>>
tempoVars == <<beatHistory, lastBeatTime, bpm, sampleInterval, lastSampleTime,
               clock, tempoCall>>
onsetVars == <<managerPreviousSpectrum, managerLastOnsetTime, onsetTimes, onsetCall>>
chromaVars == <<calculatedChroma, renormalized>>
loopVars == <<starting, timers, scheduled, animationId, ticked>>
otherVars == <<tempoVars, onsetVars, chromaVars, loopVars>>
vars == <<freq, note, chromaIndex, notes, matcher, chord,
          sampleRate, frequencyData, extracted, fundamentals,
          chromaBuffer, previousChroma, consecutiveChanges, currentChord,
          chordConfidence, chordStability, returned, vote, run, prevRun,
          harmony, harmonyChanges, steady, gate,
          now, isRunning, multiChordMode, lastChordDetectionTime,
          previousSpectrum, lastOnsetTime, chordVotes, currentStableChord,
          lastStableChordTime, lastChord, chordBuffer, currentDisplayedChord,
          sampled, startedAt, polled,
          beatHistory, lastBeatTime, bpm, sampleInterval, lastSampleTime,
          clock, tempoCall,
          managerPreviousSpectrum, managerLastOnsetTime, onsetTimes, onsetCall,
          calculatedChroma, renormalized,
          starting, timers, scheduled, animationId, ticked>>

(***************************************************************************)
(* Bounds of the model.                                                    *)
(***************************************************************************)
MaxSemitones == 48      \* semitone offsets -MaxSemitones..MaxSemitones around A4
MaxNotes == 3           \* longest list of detected notes handed to a matcher
MaxBandBin == 46        \* highest frame bin whose frequency is classified
MaxPeaks == 4           \* most peaks of a frame, the dense frames aside
MaxChanges == 12        \* largest value of the change gate's counter
MaxRun == 10            \* votes in a row counted, more count as this many
MaxHarmonyChanges == 1  \* changes of harmony in the frames fed to the detector
MaxSteady == 8          \* frames counted after the last change of harmony
FramePeriod == 90       \* ms between two animation frames of the renderer
MaxTime == 810          \* the renderer's clock stops here
MaxCalls == 6           \* frames on which the tempo is estimated
MaxFrames == 5          \* frames handed to detectOnset
FrameBins == 2          \* bins of a frame handed to detectOnset
MaxStarting == 2        \* calls of startDetection waiting at one time
MaxTimers == 1          \* timers of onDeviceChange pending at one time
MaxCallbacks == 3       \* animation frame callbacks requested at one time
VotePeriod == 120       \* ms between two animation frames of a slow display
MaxVoteTime == 840      \* the clock of the slow display stops here

(***************************************************************************)
(* JavaScript arithmetic and arrays.                                       *)
(***************************************************************************)
\* a % b of JavaScript: the remainder takes the sign of the dividend.
JsRem(a, b) == IF a >= 0 THEN a % b ELSE -((-a) % b)

\* arr[i] of JavaScript, 0-based: undefined outside the array.
At(arr, i) == IF i \in 0..(Len(arr) - 1) THEN arr[i + 1] ELSE "undefined"

Null == [name |-> "null", confidence |-> 0]

RECURSIVE Pow2(_)
Pow2(n) == IF n <= 0 THEN 1 ELSE 2 * Pow2(n - 1)

Min(a, b) == IF a <= b THEN a ELSE b
Max(a, b) == IF a >= b THEN a ELSE b

(***************************************************************************)
(* Pitch Classifier: ChordDetector.frequencyToNoteWithOctave.              *)
(***************************************************************************)
A4 == 440
fftSize == 2048
noteNames == <<"C", "C#", "D", "D#", "E", "F", "F#", "G", "G#", "A", "A#", "B">>

\* A4 in the model's frequency unit, and A4 four octaves up (7040 Hz), the
\* octave every frequency is doubled into before it is compared.
A4Units == A4 * fftSize
A4Top == A4Units * 16

\* Defined for 0 < frequency < 2 * A4Top.
InClassifierRange(frequency) == frequency > 0 /\ frequency < 2 * A4Top

\* frequency doubled into the top octave, A4Top <= g < 2 * A4Top, with the
\* octave m it came from: frequency = g * 2^(m - 4).
RECURSIVE IntoTopOctave(_, _)
IntoTopOctave(g, m) ==
    IF g >= A4Top THEN [g |-> g, m |-> m] ELSE IntoTopOctave(2 * g, m - 1)

\* floor(log2(frequency / A4)): the m with A4*2^m <= frequency < A4*2^(m+1).
FloorLog2(frequency) == IntoTopOctave(frequency, 4).m

\* The least integers not below A4Top * 2^((j - 0.5)/12), j = 1..12: the
\* quarter-tone boundaries at which Math.round(12*log2(f/A4)) steps.
HalfStep == <<14840398, 15722854, 16657783, 17648307, 18697729, 19809554,
              20987492, 22235473, 23557663, 24958474, 26442582, 28014940>>

\* Math.round(12 * Math.log2(frequency / A4)).
RoundNoteNumber(frequency) ==
    LET top == IntoTopOctave(frequency, 4)
    IN  12 * top.m + Cardinality({j \in 1..12 : HalfStep[j] <= top.g})

NoteIndexDropPlus12(noteIndex) == JsRem(noteIndex, 12)
NoteIndex(noteIndex) == JsRem(noteIndex + 12, 12)

frequencyToNoteWithOctave(frequency) ==
    LET noteNumber == RoundNoteNumber(frequency)
        noteIndex == JsRem(noteNumber, 12)
        octave == FloorLog2(frequency) + 4
    IN  [note |-> At(noteNames, NoteIndex(noteIndex)), octave |-> octave]

(***************************************************************************)
(* Chroma Aggregator's pitch mapping: BrowserChordDetector's               *)
(* frequencyToChromaIndex, called for 65 Hz < frequency < 1000 Hz.         *)
(***************************************************************************)
chromaNotes == <<"C", "C#", "D", "D#", "E", "F", "F#", "G", "G#", "A", "A#", "B">>

\* Math.round(69 + x) = 69 + Math.round(x).
frequencyToChromaIndex(frequency) ==
    LET midiNote == 69 + RoundNoteNumber(frequency)
    IN  JsRem(midiNote, 12)

InChromaBand(frequency) == frequency > 65 * fftSize /\ frequency < 1000 * fftSize

(***************************************************************************)
(* String order of Array.prototype.sort(): by UTF-16 code units.           *)
(***************************************************************************)
CharCodes(s) ==
    CASE s = "A" -> <<65>>      [] s = "A#" -> <<65, 35>>   [] s = "Ab" -> <<65, 98>>
      [] s = "B" -> <<66>>      [] s = "Bb" -> <<66, 98>>
      [] s = "C" -> <<67>>      [] s = "C#" -> <<67, 35>>
      [] s = "D" -> <<68>>      [] s = "D#" -> <<68, 35>>   [] s = "Db" -> <<68, 98>>
      [] s = "E" -> <<69>>      [] s = "Eb" -> <<69, 98>>
      [] s = "F" -> <<70>>      [] s = "F#" -> <<70, 35>>
      [] s = "G" -> <<71>>      [] s = "G#" -> <<71, 35>>   [] s = "Gb" -> <<71, 98>>

StrLess(a, b) ==
    LET x == CharCodes(a)
        y == CharCodes(b)
    IN  \/ x[1] < y[1]
        \/ /\ x[1] = y[1]
           /\ \/ Len(x) < Len(y)
              \/ Len(x) = 2 /\ Len(y) = 2 /\ x[2] < y[2]

\* [...new Set(names)].sort(): the distinct names in ascending string order.
RECURSIVE SortNames(_)
SortNames(S) ==
    IF S = {} THEN <<>>
    ELSE LET least == CHOOSE a \in S : \A b \in S \ {a} : StrLess(a, b)
         IN  <<least>> \o SortNames(S \ {least})

Range(seq) == {seq[i] : i \in 1..Len(seq)}

UniqueNotes(ns) == SortNames({ns[i].note : i \in 1..Len(ns)})

(***************************************************************************)
(* Chord Matcher of ChordDetector: identifyChordWithTemporalAnalysis.      *)
(* chordPatterns is the object literal in insertion order; a key is kept   *)
(* as the sequence of the names it joins with ','.                         *)
(***************************************************************************)
MajorConfidence == 900
MinorConfidence == 800
FallbackConfidence == 300

chordPatterns == <<
    [key |-> <<"C", "E", "G">>,    name |-> "C",   confidence |-> MajorConfidence],
    [key |-> <<"C#", "F", "G#">>,  name |-> "C#",  confidence |-> MajorConfidence],
    [key |-> <<"D", "F#", "A">>,   name |-> "D",   confidence |-> MajorConfidence],
    [key |-> <<"D#", "G", "A#">>,  name |-> "D#",  confidence |-> MajorConfidence],
    [key |-> <<"E", "G#", "B">>,   name |-> "E",   confidence |-> MajorConfidence],
    [key |-> <<"F", "A", "C">>,    name |-> "F",   confidence |-> MajorConfidence],
    [key |-> <<"F#", "A#", "C#">>, name |-> "F#",  confidence |-> MajorConfidence],
    [key |-> <<"G", "B", "D">>,    name |-> "G",   confidence |-> MajorConfidence],
    [key |-> <<"G#", "C", "D#">>,  name |-> "G#",  confidence |-> MajorConfidence],
    [key |-> <<"A", "C#", "E">>,   name |-> "A",   confidence |-> MajorConfidence],
    [key |-> <<"A#", "D", "F">>,   name |-> "A#",  confidence |-> MajorConfidence],
    [key |-> <<"B", "D#", "F#">>,  name |-> "B",   confidence |-> MajorConfidence],
    [key |-> <<"C", "Eb", "G">>,   name |-> "Cm",  confidence |-> MinorConfidence],
    [key |-> <<"C#", "E", "G#">>,  name |-> "C#m", confidence |-> MinorConfidence],
    [key |-> <<"D", "F", "A">>,    name |-> "Dm",  confidence |-> MinorConfidence],
    [key |-> <<"D#", "F#", "A#">>, name |-> "D#m", confidence |-> MinorConfidence],
    [key |-> <<"E", "G", "B">>,    name |-> "Em",  confidence |-> MinorConfidence],
    [key |-> <<"F", "Ab", "C">>,   name |-> "Fm",  confidence |-> MinorConfidence],
    [key |-> <<"F#", "A", "C#">>,  name |-> "F#m", confidence |-> MinorConfidence],
    [key |-> <<"G", "Bb", "D">>,   name |-> "Gm",  confidence |-> MinorConfidence],
    [key |-> <<"G#", "B", "D#">>,  name |-> "G#m", confidence |-> MinorConfidence],
    [key |-> <<"A", "C", "E">>,    name |-> "Am",  confidence |-> MinorConfidence],
    [key |-> <<"A#", "C#", "F">>,  name |-> "A#m", confidence |-> MinorConfidence],
    [key |-> <<"B", "D", "F#">>,   name |-> "Bm",  confidence |-> MinorConfidence] >>

\* uniqueNotes.filter(note => patternNotes.includes(note)).length
MatchingNotes(uniqueNotes, patternNotes) ==
    Cardinality({i \in 1..Len(uniqueNotes) : uniqueNotes[i] \in Range(patternNotes)})

\* The indices of the table entries a lookup or a for-in loop stops at.
ExactEntries(table, uniqueNotes) == {p \in 1..Len(table) : table[p].key = uniqueNotes}
FirstOf(S) == CHOOSE p \in S : \A q \in S : p <= q

identifyChordWithTemporalAnalysis(notesWithOctaves) ==
    IF Len(notesWithOctaves) < 2 THEN Null
    ELSE
    LET uniqueNotes == UniqueNotes(notesWithOctaves)
        exact == ExactEntries(chordPatterns, uniqueNotes)
        partial == {p \in 1..Len(chordPatterns) :
                        MatchingNotes(uniqueNotes, chordPatterns[p].key) >= 2}
    IN  IF exact # {}
        THEN [name |-> chordPatterns[FirstOf(exact)].name,
              confidence |-> chordPatterns[FirstOf(exact)].confidence]
        ELSE IF Len(uniqueNotes) >= 2 /\ partial # {}
        THEN [name |-> chordPatterns[FirstOf(partial)].name,
              confidence |-> (chordPatterns[FirstOf(partial)].confidence * 7) \div 10]
        ELSE [name |-> At(uniqueNotes, 0), confidence |-> FallbackConfidence]

(***************************************************************************)
(* Chord Matcher of ImprovedChordDetector: improvedChordIdentification     *)
(* with identifyChordByIntervals and identifyChordByPattern.               *)
(***************************************************************************)
\* noteMap of notesToSemitones.
noteMap(n) ==
    CASE n = "C" -> 0   [] n = "C#" -> 1  [] n = "Db" -> 1  [] n = "D" -> 2
      [] n = "D#" -> 3  [] n = "Eb" -> 3  [] n = "E" -> 4   [] n = "F" -> 5
      [] n = "F#" -> 6  [] n = "Gb" -> 6  [] n = "G" -> 7   [] n = "G#" -> 8
      [] n = "Ab" -> 8  [] n = "A" -> 9   [] n = "A#" -> 10 [] n = "Bb" -> 10
      [] n = "B" -> 11

notesToSemitones(ns) == [i \in 1..Len(ns) |-> noteMap(ns[i])]

semitoneToNoteName(semitone) == At(noteNames, semitone)

intervalPatterns == <<
    [pattern |-> {0, 4, 7},     type |-> "",     confidence |-> 900],
    [pattern |-> {0, 3, 7},     type |-> "m",    confidence |-> 900],
    [pattern |-> {0, 4, 7, 11}, type |-> "maj7", confidence |-> 800],
    [pattern |-> {0, 3, 7, 10}, type |-> "m7",   confidence |-> 800],
    [pattern |-> {0, 4, 7, 10}, type |-> "7",    confidence |-> 800],
    [pattern |-> {0, 2, 7},     type |-> "sus2", confidence |-> 700],
    [pattern |-> {0, 5, 7},     type |-> "sus4", confidence |-> 700] >>

\* The intervals of the notes relative to the root at rootIndex (1-based).
IntervalsFrom(semitones, rootIndex) ==
    {(semitones[i] - semitones[rootIndex] + 12) % 12 : i \in 1..Len(semitones)}

\* matchRatio >= 0.75, with matchRatio = matching / pattern length.
IntervalMatch(semitones, rootIndex, p) ==
    LET matching == Cardinality(intervalPatterns[p].pattern
                                    \cap IntervalsFrom(semitones, rootIndex))
    IN  matching * 100 >= 75 * Cardinality(intervalPatterns[p].pattern)

identifyChordByIntervals(uniqueNotes) ==
    IF Len(uniqueNotes) < 3 THEN Null
    ELSE
    LET semitones == notesToSemitones(uniqueNotes)
        n == Len(intervalPatterns)
        \* (root, pattern) pairs in loop order, numbered (root-1)*n + pattern
        hits == {h \in 1..(Len(semitones) * n) :
                    IntervalMatch(semitones, ((h - 1) \div n) + 1, ((h - 1) % n) + 1)}
    IN  IF hits = {} THEN Null
        ELSE LET h == FirstOf(hits)
                 rootNote == semitones[((h - 1) \div n) + 1]
                 pat == intervalPatterns[((h - 1) % n) + 1]
                 matching == Cardinality(pat.pattern
                                 \cap IntervalsFrom(semitones, ((h - 1) \div n) + 1))
             IN  [name |-> semitoneToNoteName(rootNote % 12) \o pat.type,
                  confidence |-> (pat.confidence * matching)
                                     \div Cardinality(pat.pattern)]

\* chordPatterns of identifyChordByPattern, in insertion order.
improvedPatterns == <<
    [key |-> <<"C", "E", "G">>,    name |-> "C"],
    [key |-> <<"C#", "F", "G#">>,  name |-> "C#"],
    [key |-> <<"D", "F#", "A">>,   name |-> "D"],
    [key |-> <<"D#", "G", "A#">>,  name |-> "D#"],
    [key |-> <<"E", "G#", "B">>,   name |-> "E"],
    [key |-> <<"F", "A", "C">>,    name |-> "F"],
    [key |-> <<"F#", "A#", "C#">>, name |-> "F#"],
    [key |-> <<"G", "B", "D">>,    name |-> "G"],
    [key |-> <<"G#", "C", "D#">>,  name |-> "G#"],
    [key |-> <<"A", "C#", "E">>,   name |-> "A"],
    [key |-> <<"A#", "D", "F">>,   name |-> "A#"],
    [key |-> <<"B", "D#", "F#">>,  name |-> "B"],
    [key |-> <<"C", "Eb", "G">>,   name |-> "Cm"],
    [key |-> <<"C#", "E", "G#">>,  name |-> "C#m"],
    [key |-> <<"D", "F", "A">>,    name |-> "Dm"],
    [key |-> <<"D#", "F#", "A#">>, name |-> "D#m"],
    [key |-> <<"E", "G", "B">>,    name |-> "Em"],
    [key |-> <<"F", "Ab", "C">>,   name |-> "Fm"],
    [key |-> <<"F#", "A", "C#">>,  name |-> "F#m"],
    [key |-> <<"G", "Bb", "D">>,   name |-> "Gm"],
    [key |-> <<"G#", "B", "D#">>,  name |-> "G#m"],
    [key |-> <<"A", "C", "E">>,    name |-> "Am"],
    [key |-> <<"A#", "C#", "F">>,  name |-> "A#m"],
    [key |-> <<"B", "D", "F#">>,   name |-> "Bm"],
    [key |-> <<"C", "E", "G", "Bb">>,  name |-> "C7"],
    [key |-> <<"D", "F#", "A", "C">>,  name |-> "D7"],
    [key |-> <<"E", "G#", "B", "D">>,  name |-> "E7"],
    [key |-> <<"F", "A", "C", "Eb">>,  name |-> "F7"],
    [key |-> <<"G", "B", "D", "F">>,   name |-> "G7"],
    [key |-> <<"A", "C#", "E", "G">>,  name |-> "A7"],
    [key |-> <<"B", "D#", "F#", "A">>, name |-> "B7"] >>

ExactPatternConfidence == 900
PartialPatternFactor == 700
StrongestNoteConfidence == 400

identifyChordByPatternUndegraded(uniqueNotes) ==
    LET exact == ExactEntries(improvedPatterns, uniqueNotes)
        minRequired(p) == IF Len(improvedPatterns[p].key) = 4 THEN 3 ELSE 2
        partial == {p \in 1..Len(improvedPatterns) :
                        MatchingNotes(uniqueNotes, improvedPatterns[p].key)
                            >= minRequired(p)}
    IN  IF exact # {}
        THEN [name |-> improvedPatterns[FirstOf(exact)].name,
              confidence |-> ExactPatternConfidence]
        ELSE IF partial # {}
        THEN [name |-> improvedPatterns[FirstOf(partial)].name,
              confidence |-> ExactPatternConfidence]
        ELSE Null
identifyChordByPattern(uniqueNotes) ==
    LET exact == ExactEntries(improvedPatterns, uniqueNotes)
        minRequired(p) == IF Len(improvedPatterns[p].key) = 4 THEN 3 ELSE 2
        partial == {p \in 1..Len(improvedPatterns) :
                        MatchingNotes(uniqueNotes, improvedPatterns[p].key)
                            >= minRequired(p)}
    IN  IF exact # {}
        THEN [name |-> improvedPatterns[FirstOf(exact)].name,
              confidence |-> ExactPatternConfidence]
        ELSE IF partial # {}
        THEN LET p == FirstOf(partial)
             IN  [name |-> improvedPatterns[p].name,
                  confidence |->
                      (PartialPatternFactor
                          * MatchingNotes(uniqueNotes, improvedPatterns[p].key))
                      \div Len(improvedPatterns[p].key)]
        ELSE Null

\* notes.reduce((strongest, current) =>
\*     current.amplitude > strongest.amplitude ? current : strongest)
RECURSIVE StrongestFrom(_, _, _)
StrongestFrom(ns, i, strongest) ==
    IF i > Len(ns) THEN strongest
    ELSE StrongestFrom(ns, i + 1,
            IF ns[i].amplitude > strongest.amplitude THEN ns[i] ELSE strongest)

improvedChordIdentification(ns) ==
    IF Len(ns) < 1 THEN Null
    ELSE
    LET uniqueNotes == UniqueNotes(ns)
        chordByIntervals == identifyChordByIntervals(uniqueNotes)
        chordByPattern == identifyChordByPattern(uniqueNotes)
    IN  IF chordByIntervals # Null THEN chordByIntervals
        ELSE IF chordByPattern # Null THEN chordByPattern
        ELSE [name |-> StrongestFrom(ns, 2, ns[1]).note,
              confidence |-> StrongestNoteConfidence]

\* peaks.sort((a, b) => b.amplitude - a.amplitude): stable, largest first.
RECURSIVE InsertByAmplitude(_, _)
InsertByAmplitude(sorted, x) ==
    IF sorted = <<>> THEN <<x>>
    ELSE IF sorted[Len(sorted)].amplitude >= x.amplitude THEN Append(sorted, x)
    ELSE Append(InsertByAmplitude(SubSeq(sorted, 1, Len(sorted) - 1), x),
                sorted[Len(sorted)])
RECURSIVE SortByAmplitudeFirst(_, _)
SortByAmplitudeFirst(ps, k) ==
    IF k = 0 THEN <<>>
    ELSE InsertByAmplitude(SortByAmplitudeFirst(ps, k - 1), ps[k])
SortByAmplitude(ps) == SortByAmplitudeFirst(ps, Len(ps))

(***************************************************************************)
(* Peak/Fundamental Extractor: ChordDetector.findFundamentalFrequencies    *)
(* (the same text in renderer.js, lines 857-937).  A frame is the record   *)
(* [length, bins]: bins maps the bins that are not 0 to their amplitude.   *)
(***************************************************************************)
amplitudeThreshold == 16
prominenceFloor == 8
maxFundamentals == 8

\* frequencyData[i]
Data(data, i) == IF i \in DOMAIN data.bins THEN data.bins[i] ELSE 0

\* i * sampleRate / (bufferLength * 2), in units of 1/fftSize Hz; the frames
\* of the analyser have fftSize / 2 bins.
BinFrequency(i, rate, bufferLength) == i * rate * (fftSize \div (bufferLength * 2))

InExtractorBand(frequency) == frequency > 50 * fftSize /\ frequency < 1500 * fftSize

Prominence(data, i) ==
    LET leftMin == Min(Data(data, i - 1), Data(data, i - 2))
        rightMin == Min(Data(data, i + 1), Data(data, i + 2))
    IN  Data(data, i) - Max(leftMin, rightMin)

\* The condition under which bin i is pushed onto peaks.
IsPeak(data, rate, i) ==
    /\ i >= 2 /\ i < data.length - 2
    /\ Data(data, i) > Data(data, i - 1) /\ Data(data, i) > Data(data, i + 1)
    /\ Data(data, i) > Data(data, i - 2) /\ Data(data, i) > Data(data, i + 2)
    /\ Data(data, i) > amplitudeThreshold
    /\ InExtractorBand(BinFrequency(i, rate, data.length))
    /\ Prominence(data, i) > prominenceFloor

\* peaks after the scan, in bin order: only a bin that is not 0 passes
\* current > amplitudeThreshold.
RECURSIVE SeqOfBins(_)
SeqOfBins(S) ==
    IF S = {} THEN <<>>
    ELSE LET b == CHOOSE x \in S : \A y \in S : x <= y
         IN  <<b>> \o SeqOfBins(S \ {b})

FindPeaks(data, rate) ==
    LET found == SeqOfBins({i \in DOMAIN data.bins : IsPeak(data, rate, i)})
    IN  [k \in 1..Len(found) |->
            [frequency |-> BinFrequency(found[k], rate, data.length),
             amplitude |-> Data(data, found[k]),
             bin |-> found[k]]]

\* Math.abs(x - Math.round(x)) < 0.1 for the ratio x = num / den.
NearInteger(num, den) ==
    LET rounded == (2 * num + den) \div (2 * den)
        diff == num - rounded * den
    IN  10 * (IF diff >= 0 THEN diff ELSE -diff) < den

\* The first test of the inner loop: the peak is a harmonic of fundamental.
IsHarmonicOf(peak, fundamental) == NearInteger(peak.frequency, fundamental.frequency)

\* The second test: fundamental is a harmonic of the peak.
IsFundamentalOfNever(peak, fundamental) == FALSE
IsFundamentalOf(peak, fundamental) == NearInteger(fundamental.frequency, peak.frequency)

\* The inner loop over j: the first j at which either test holds, or 0.
FirstRelated(peak, funds) ==
    LET related == {j \in 1..Len(funds) :
                        IsHarmonicOf(peak, funds[j]) \/ IsFundamentalOf(peak, funds[j])}
    IN  IF related = {} THEN 0 ELSE FirstOf(related)

\* One pass of the outer loop body for peak.
AcceptPeak(funds, peak) ==
    LET j == FirstRelated(peak, funds)
    IN  IF j = 0 THEN Append(funds, peak)
        ELSE IF IsHarmonicOf(peak, funds[j]) THEN funds
        ELSE [funds EXCEPT ![j] = peak]

\* The outer loop's test: i < peaks.length && fundamentals.length < 8.
LoopContinuesUncapped(peaks, i, funds) == i <= Len(peaks)
LoopContinues(peaks, i, funds) == i <= Len(peaks) /\ Len(funds) < maxFundamentals

RECURSIVE BuildFundamentals(_, _, _)
BuildFundamentals(peaks, i, funds) ==
    IF ~LoopContinues(peaks, i, funds) THEN funds
    ELSE BuildFundamentals(peaks, i + 1, AcceptPeak(funds, peaks[i]))

\* fundamentals.sort((a, b) => a.frequency - b.frequency)
RECURSIVE InsertByFrequency(_, _)
InsertByFrequency(sorted, x) ==
    IF sorted = <<>> THEN <<x>>
    ELSE IF sorted[Len(sorted)].frequency <= x.frequency THEN Append(sorted, x)
    ELSE Append(InsertByFrequency(SubSeq(sorted, 1, Len(sorted) - 1), x),
                sorted[Len(sorted)])
RECURSIVE SortByFrequencyFirst(_, _)
SortByFrequencyFirst(ps, k) ==
    IF k = 0 THEN <<>>
    ELSE InsertByFrequency(SortByFrequencyFirst(ps, k - 1), ps[k])

findFundamentalFrequencies(data, rate) ==
    LET peaks == SortByAmplitude(FindPeaks(data, rate))
        funds == BuildFundamentals(peaks, 1, <<>>)
        sorted == SortByFrequencyFirst(funds, Len(funds))
    IN  [k \in 1..Len(sorted) |-> sorted[k].frequency]

(***************************************************************************)
(* BrowserChordDetector (chroma-based detector with temporal stabilizer).  *)
(* A chroma vector is kept as the 12 integer sums of bin amplitudes; the   *)
(* common factor 1/(255 * maxValue) of the normalized vector is left out,  *)
(* and every test on a normalized value is written against the largest     *)
(* sum (value/maxValue >= 0.25 is 4 * value >= maxValue).  An entry of the *)
(* chroma buffer carries its age currentTime - timestamp, saturating at    *)
(* the length of the recency window, in place of its timestamp.            *)
(***************************************************************************)
minConfidence == 750
maxChromaBuffer == 8
chromaChangeThreshold == 15         \* 0.15, in hundredths
minConsecutiveChanges == 3
minStability == 5
maxStability == 20
recentWindow == 1000                \* milliseconds
dominanceThreshold == 6             \* 0.6, in tenths
confidenceCap == 950
maxDominantNotes == 6

\* Body applied to a value that is computed once.
With(value, Body(_)) == CHOOSE r \in {Body(v) : v \in {value}} : TRUE

RECURSIVE SumSeq(_)
SumSeq(s) == IF s = <<>> THEN 0 ELSE Head(s) + SumSeq(Tail(s))

ZeroChroma == [i \in 1..12 |-> 0]

MaxValue(chromaVector) ==
    CHOOSE v \in Range(chromaVector) : \A w \in Range(chromaVector) : w <= v

calculateChromaFromFrequency(data, rate) ==
    LET bufferLength == data.length
        inBand == {i \in DOMAIN data.bins :
                      /\ i < bufferLength
                      /\ InChromaBand(BinFrequency(i, rate, bufferLength))}
        binsOf(noteIndex) ==
            {i \in inBand :
                frequencyToChromaIndex(BinFrequency(i, rate, bufferLength)) = noteIndex}
        amplitudes(noteIndex) ==
            LET order == SeqOfBins(binsOf(noteIndex))
            IN  SumSeq([k \in 1..Len(order) |-> Data(data, order[k])])
    IN  [i \in 1..12 |-> amplitudes(i - 1)]

Dot(a, b) == With(<<a, b>>, LAMBDA p : SumSeq([i \in 1..12 |-> p[1][i] * p[2][i]]))

\* change > chromaChangeThreshold, change being 1 - similarity and
\* similarity the cosine of the two vectors, 0 when either one is zero.
ChangeExceedsThreshold(currentChroma, previous) ==
    LET dotProduct == Dot(currentChroma, previous)
        magnitudeCurrent == Dot(currentChroma, currentChroma)
        magnitudePrevious == Dot(previous, previous)
        keep == 100 - chromaChangeThreshold
    IN  IF magnitudeCurrent > 0 /\ magnitudePrevious > 0
        THEN 10000 * dotProduct * dotProduct
                < keep * keep * magnitudeCurrent * magnitudePrevious
        ELSE TRUE

\* The value consecutiveChanges takes in detectSpectralChange.
detectSpectralChange(currentChroma, previous, changes) ==
    IF ChangeExceedsThreshold(currentChroma, previous)
    THEN changes + 1
    ELSE Max(0, changes - 1)

\* sortedChroma[2]: the third largest of the twelve values.
ThirdStrongest(chroma) ==
    CHOOSE v \in Range(chroma) :
        /\ Cardinality({i \in 1..12 : chroma[i] > v}) <= 2
        /\ Cardinality({i \in 1..12 : chroma[i] >= v}) >= 3

findDominantNotes(normalizedChroma) ==
    LET top == MaxValue(normalizedChroma)
        third == ThirdStrongest(normalizedChroma)
        dominant(i) ==
            /\ 4 * normalizedChroma[i + 1] >= top
            /\ 5 * normalizedChroma[i + 1] >= 4 * third
        dominantIndices == SeqOfBins({i \in 0..11 : dominant(i)})
        byStrength ==
            SortByAmplitude([k \in 1..Len(dominantIndices) |->
                [amplitude |-> normalizedChroma[dominantIndices[k] + 1],
                 index |-> dominantIndices[k]]])
        kept == IF Len(dominantIndices) > maxDominantNotes
                THEN [k \in 1..maxDominantNotes |-> byStrength[k].index]
                ELSE dominantIndices
    IN  [k \in 1..Len(kept) |-> At(chromaNotes, kept[k])]

\* chordPatterns of detectChordsFromNotes, in insertion order.
browserChordPatterns == <<
    [key |-> <<"C", "E", "G">>,    name |-> "C"],
    [key |-> <<"C#", "F", "G#">>,  name |-> "C#"],
    [key |-> <<"D", "F#", "A">>,   name |-> "D"],
    [key |-> <<"D#", "G", "A#">>,  name |-> "D#"],
    [key |-> <<"E", "G#", "B">>,   name |-> "E"],
    [key |-> <<"F", "A", "C">>,    name |-> "F"],
    [key |-> <<"F#", "A#", "C#">>, name |-> "F#"],
    [key |-> <<"G", "B", "D">>,    name |-> "G"],
    [key |-> <<"G#", "C", "D#">>,  name |-> "G#"],
    [key |-> <<"A", "C#", "E">>,   name |-> "A"],
    [key |-> <<"A#", "D", "F">>,   name |-> "A#"],
    [key |-> <<"B", "D#", "F#">>,  name |-> "B"],
    [key |-> <<"C", "Eb", "G">>,   name |-> "Cm"],
    [key |-> <<"C#", "E", "G#">>,  name |-> "C#m"],
    [key |-> <<"D", "F", "A">>,    name |-> "Dm"],
    [key |-> <<"D#", "F#", "A#">>, name |-> "D#m"],
    [key |-> <<"E", "G", "B">>,    name |-> "Em"],
    [key |-> <<"F", "Ab", "C">>,   name |-> "Fm"],
    [key |-> <<"F#", "A", "C#">>,  name |-> "F#m"],
    [key |-> <<"G", "Bb", "D">>,   name |-> "Gm"],
    [key |-> <<"G#", "B", "D#">>,  name |-> "G#m"],
    [key |-> <<"A", "C", "E">>,    name |-> "Am"],
    [key |-> <<"A#", "C#", "F">>,  name |-> "A#m"],
    [key |-> <<"B", "D", "F#">>,   name |-> "Bm"] >>

\* notes.filter(note => others.includes(note)).length
CountIncluded(ns, others) == Cardinality({i \in 1..Len(ns) : ns[i] \in Range(others)})

Selected(table, keep(_)) ==
    LET kept == SeqOfBins({i \in 1..Len(table) : keep(table[i])})
    IN  [k \in 1..Len(kept) |-> table[kept[k]]]

detectChordsFromNotes(ns) ==
    LET exact(p) == p.key = ns
        partial(p) == CountIncluded(ns, p.key) >= 2
        exactMatches == Selected(browserChordPatterns, exact)
        possibleChords == Selected(browserChordPatterns, partial)
    IN  IF exactMatches # <<>>
        THEN <<exactMatches[1].name>>
        ELSE [k \in 1..Len(possibleChords) |-> possibleChords[k].name]

\* chordMap of getChordNotes.
chordMap == <<
    [name |-> "C",   notes |-> <<"C", "E", "G">>],
    [name |-> "C#",  notes |-> <<"C#", "F", "G#">>],
    [name |-> "D",   notes |-> <<"D", "F#", "A">>],
    [name |-> "D#",  notes |-> <<"D#", "G", "A#">>],
    [name |-> "E",   notes |-> <<"E", "G#", "B">>],
    [name |-> "F",   notes |-> <<"F", "A", "C">>],
    [name |-> "F#",  notes |-> <<"F#", "A#", "C#">>],
    [name |-> "G",   notes |-> <<"G", "B", "D">>],
    [name |-> "G#",  notes |-> <<"G#", "C", "D#">>],
    [name |-> "A",   notes |-> <<"A", "C#", "E">>],
    [name |-> "A#",  notes |-> <<"A#", "D", "F">>],
    [name |-> "B",   notes |-> <<"B", "D#", "F#">>],
    [name |-> "Cm",  notes |-> <<"C", "Eb", "G">>],
    [name |-> "C#m", notes |-> <<"C#", "E", "G#">>],
    [name |-> "Dm",  notes |-> <<"D", "F", "A">>],
    [name |-> "D#m", notes |-> <<"D#", "F#", "A#">>],
    [name |-> "Em",  notes |-> <<"E", "G", "B">>],
    [name |-> "Fm",  notes |-> <<"F", "Ab", "C">>],
    [name |-> "F#m", notes |-> <<"F#", "A", "C#">>],
    [name |-> "Gm",  notes |-> <<"G", "Bb", "D">>],
    [name |-> "G#m", notes |-> <<"G#", "B", "D#">>],
    [name |-> "Am",  notes |-> <<"A", "C", "E">>],
    [name |-> "A#m", notes |-> <<"A#", "C#", "F">>],
    [name |-> "Bm",  notes |-> <<"B", "D", "F#">>] >>

\* Every name detectChordsFromNotes returns is a key of chordMap.
getChordNotes(chordName) ==
    LET named(entry) == entry.name = chordName
    IN  Selected(chordMap, named)[1].notes

\* The largest x in lo..hi with x * x <= n.
RECURSIVE SqrtBetween(_, _, _)
SqrtBetween(n, lo, hi) ==
    IF lo = hi THEN lo
    ELSE LET mid == (lo + hi + 1) \div 2
         IN  IF mid * mid <= n THEN SqrtBetween(n, mid, hi) ELSE SqrtBetween(n, lo, mid - 1)

\* Math.sqrt of a number of millionths, in thousandths, rounded down.
FloorSqrt(n) == SqrtBetween(n, 0, 1000)

\* this.chromaNotes.indexOf(note), 0-based, -1 when absent.
IndexOfNote(n) ==
    IF n \in Range(chromaNotes)
    THEN (CHOOSE i \in 1..12 : chromaNotes[i] = n) - 1
    ELSE 0 - 1

\* The cosine of the chroma vector and the chord's ideal vector, in
\* thousandths, rounded down.
calculateChromaMatch(chordNotes, chromaVector) ==
    LET idealChroma == [i \in 1..12 |->
            IF \E k \in 1..Len(chordNotes) : IndexOfNote(chordNotes[k]) = i - 1
            THEN 1 ELSE 0]
        dotProduct == Dot(chromaVector, idealChroma)
        magnitudeActual == Dot(chromaVector, chromaVector)
        magnitudeIdeal == Dot(idealChroma, idealChroma)
        squares == magnitudeActual * magnitudeIdeal
    IN  IF magnitudeActual = 0 \/ magnitudeIdeal = 0
        THEN 0
        ELSE FloorSqrt((1000000 * dotProduct * dotProduct) \div squares)

ChordScore(chordName, dominantNotes, chromaVector) ==
    LET chordNotes == getChordNotes(chordName)
        chromaMatch == calculateChromaMatch(chordNotes, chromaVector)
        matchingNotes == CountIncluded(dominantNotes, chordNotes)
        noteMatch == (1000 * matchingNotes) \div Max(Len(chordNotes), Len(dominantNotes))
        confidence == Min((chromaMatch * 7 + noteMatch * 3) \div 10, confidenceCap)
    IN  [name |-> chordName, confidence |-> confidence]

\* chordScores.sort((a, b) => b.confidence - a.confidence)[0]: the sort is
\* stable, so the first of the most confident scores.
BestChord(chordScores) ==
    LET best == CHOOSE k \in 1..Len(chordScores) :
                    /\ \A j \in 1..Len(chordScores) :
                            chordScores[j].confidence <= chordScores[k].confidence
                    /\ \A j \in 1..(k - 1) :
                            chordScores[j].confidence < chordScores[k].confidence
    IN  chordScores[best]

identifyChord(dominantNotes, chromaVector) ==
    With(detectChordsFromNotes(dominantNotes), LAMBDA detectedChords :
    With([k \in 1..Len(detectedChords) |->
            ChordScore(detectedChords[k], dominantNotes, chromaVector)], LAMBDA chordScores :
    With(IF Len(detectedChords) > 0 THEN BestChord(chordScores) ELSE Null, LAMBDA bestChord :
        IF bestChord.confidence >= minConfidence THEN bestChord ELSE Null)))

\* The chord analyzeChromaForChord returns; it has added the chord to the
\* chroma buffer exactly when it returns one.
analyzeChromaForChord(chromaVector) ==
    IF MaxValue(chromaVector) = 0 THEN Null
    ELSE With(findDominantNotes(chromaVector), LAMBDA dominantNotes :
            IF Len(dominantNotes) < 2 THEN Null
            ELSE With(identifyChord(dominantNotes, chromaVector), LAMBDA found :
                    IF found # Null /\ found.confidence >= minConfidence THEN found
                    ELSE Null))

addToChromaBufferUnbounded(buffer, newChord) ==
    Append(buffer, [chord |-> newChord.name, confidence |-> newChord.confidence, age |-> 0])

addToChromaBuffer(buffer, newChord) ==
    LET pushed == Append(buffer, [chord |-> newChord.name,
                                  confidence |-> newChord.confidence,
                                  age |-> 0])
    IN  IF Len(pushed) > maxChromaBuffer THEN Tail(pushed) ELSE pushed

\* The buffer dt milliseconds later.
Aged(buffer, dt) ==
    [k \in 1..Len(buffer) |->
        [buffer[k] EXCEPT !.age = Min(buffer[k].age + dt, recentWindow)]]

IsRecent(item) == item.age < recentWindow

ScoreOf(recentBuffer, chordName) ==
    SumSeq([k \in 1..Len(recentBuffer) |->
                IF recentBuffer[k].chord = chordName THEN recentBuffer[k].confidence ELSE 0])

DominantAlways(currentChordScore, totalScore) == TRUE
DominantEnough(currentChordScore, totalScore) ==
    10 * currentChordScore >= dominanceThreshold * totalScore

\* stabilizeChord: the stabilizer's fields after the call and the chord it
\* returns.
stabilizeChord(newChord, buffer, current, confidence, stability, changes) ==
    LET recentBuffer == Selected(buffer, IsRecent)
        currentChordScore == ScoreOf(recentBuffer, newChord.name)
        totalScore == SumSeq([k \in 1..Len(recentBuffer) |-> recentBuffer[k].confidence])
        kept == [currentChord |-> current, chordConfidence |-> confidence,
                 chordStability |-> stability, consecutiveChanges |-> changes]
    IN  IF totalScore = 0
        THEN [state |-> kept, returned |-> newChord]
        ELSE IF newChord.name = current
        THEN [state |-> [kept EXCEPT
                            !.chordStability = Min(stability + 1, maxStability),
                            !.chordConfidence = Max(confidence, newChord.confidence)],
              returned |-> newChord]
        ELSE IF DominantEnough(currentChordScore, totalScore)
        THEN [state |-> [currentChord |-> newChord.name,
                         chordConfidence |-> newChord.confidence,
                         chordStability |-> 1,
                         consecutiveChanges |-> 0],
              returned |-> newChord]
        ELSE [state |-> kept,
              returned |-> [name |-> current, confidence |-> confidence]]

\* The frames fed to the detector: silence, and two voicings each of the C
\* and the G major triad (bins 12, 15, 18 sound C, E, G and bins 14, 18, 23
\* sound D, G, B at 44.1 kHz), one note of a voicing louder than the others.
Harmonies == {"silence", "C", "G"}
Intervals == {400, 1000}
NoRun == [name |-> "null", count |-> 0]
NoChange == [after |-> "none", frames |-> 0]
NoGate == [significant |-> FALSE, exceeded |-> 0]

TriadFrame(bins, loud, soft) ==
    [length |-> fftSize \div 2, bins |-> [b \in bins |-> IF b = loud THEN 10 ELSE soft]]

SilentFrame == [length |-> fftSize \div 2, bins |-> [b \in {12} |-> 0]]

FramesOf(h) ==
    CASE h = "silence" -> {SilentFrame}
      [] h = "C" -> {TriadFrame({12, 15, 18}, 12, 3), TriadFrame({12, 15, 18}, 18, 3)}
      [] h = "G" -> {TriadFrame({14, 18, 23}, 18, 4), TriadFrame({14, 18, 23}, 14, 4)}

IsSilent(data) == data.length > 0 /\ \A b \in DOMAIN data.bins : data.bins[b] = 0

DetectorFrames == UNION {FramesOf(h) : h \in Harmonies}

\* calculateChromaFromFrequency(frequencyData) and, of its result,
\* analyzeChromaForChord's chord, for each frame fed to the detector.
FrameChroma ==
    [data \in DetectorFrames, rate \in {44100, 48000} |->
        calculateChromaFromFrequency(data, rate)]
FrameChord ==
    [data \in DetectorFrames, rate \in {44100, 48000} |->
        analyzeChromaForChord(FrameChroma[data, rate])]

\* detectChord of BrowserChordDetector on one frame, dt milliseconds after
\* the previous call: the detector's fields afterwards, the chord returned
\* and the vote analyzeChromaForChord cast (Null when it cast none).
detectChord(data, rate, dt, buffer, previous, current, confidence, stability, changes) ==
    With(FrameChroma[data, rate], LAMBDA chromaVector :
    With(detectSpectralChange(chromaVector, previous, changes), LAMBDA counted :
    With(IF counted >= minConsecutiveChanges \/ stability < minStability
         THEN FrameChord[data, rate] ELSE Null, LAMBDA found :
    LET aged == Aged(buffer, dt)
        voted == found # Null /\ found.confidence >= minConfidence
        buffered == IF found # Null THEN addToChromaBuffer(aged, found) ELSE aged
        kept == [currentChord |-> current, chordConfidence |-> confidence,
                 chordStability |-> stability, consecutiveChanges |-> counted]
        stabilized == stabilizeChord(found, buffered, current, confidence, stability, counted)
    IN  [chromaBuffer |-> buffered,
         previousChroma |-> chromaVector,
         hasSignificantChange |-> counted >= minConsecutiveChanges,
         exceeded |-> counted > changes,
         state |-> IF voted THEN stabilized.state ELSE kept,
         returned |-> IF voted THEN stabilized.returned
                      ELSE IF current # "null" /\ stability >= minStability
                      THEN [name |-> current, confidence |-> confidence]
                      ELSE Null,
         vote |-> IF voted THEN found ELSE Null])))


(***************************************************************************)
(* Inputs.                                                                 *)
(***************************************************************************)
\* The model frequency nearest below 440 * 2^(j/12) * 16, j = 0..11.
SemitoneTop == <<14417920, 15275254, 16183568, 17145893, 18165441, 19245614,
                 20390018, 21602472, 22887021, 24247954, 25689813, 27217409>>

\* floor(k / 12) and k mod 12 for any integer k.
FloorDiv12(k) == IF k >= 0 THEN k \div 12 ELSE -((-k + 11) \div 12)
Mod12(k) == k - 12 * FloorDiv12(k)

\* 440 * 2^(k/12) Hz to within one model unit (1/2048 Hz).
SemitoneFreq(k) ==
    LET m == FloorDiv12(k)
    IN  IF m <= 4 THEN SemitoneTop[Mod12(k) + 1] \div Pow2(4 - m)
        ELSE SemitoneTop[Mod12(k) + 1] * Pow2(m - 4)

SemitoneOffsets == (-MaxSemitones)..MaxSemitones

SampleRates == {44100, 48000}

ClassifierInputs ==
    {SemitoneFreq(k) : k \in SemitoneOffsets}
        \cup {i * sr : i \in 3..MaxBandBin, sr \in SampleRates}

NoNote == [note |-> "none", octave |-> 0]
NoIndex == <<>>

\* The peaks of one frame as the notes they map to, in ascending frequency
\* (bin) order: strictly ascending sequences of pitches, a pitch being one of
\* the 12 names in one of two octaves.
Octaves == {3, 4}
PitchOf(n) == [note |-> noteNames[((n - 1) % 12) + 1], octave |-> 3 + ((n - 1) \div 12)]
RECURSIVE AscendingPitches(_)
AscendingPitches(n) ==
    IF n = 0 THEN {<<>>}
    ELSE UNION {{Append(s, x) : x \in (IF s = <<>> THEN 1 ELSE s[Len(s)] + 1)..24} :
                    s \in AscendingPitches(n - 1)}

\* The peaks' amplitudes: all equal, falling with frequency, or rising.
Loudness == {"flat", "falling", "rising"}
AmplitudeAt(profile, i) ==
    CASE profile = "flat" -> 30
      [] profile = "falling" -> 40 - i
      [] profile = "rising" -> 20 + i

\* Four notes of octave 4, the seventh chords among them.
FourNotes == {s \in AscendingPitches(4) : s[1] >= 13}

NoteLists ==
    {[i \in 1..Len(s) |->
        [note |-> PitchOf(s[i]).note, octave |-> PitchOf(s[i]).octave,
         amplitude |-> AmplitudeAt(profile, i)]] :
        s \in UNION {AscendingPitches(n) : n \in 0..MaxNotes} \cup FourNotes,
        profile \in Loudness}

\* The frames handed to the extractor: peaks at some of the candidate bins,
\* every other bin 0.  DenseBins are nine bins no two of which are harmonics
\* of one another; bins 10 and 13 lie an octave below bins 20 and 26, bin 2
\* below the band and bin 66 above it at 48 kHz.
DenseBins == {7, 13, 16, 20, 23, 30, 34, 43, 50}
CandidateBins == DenseBins \cup {2, 10, 26, 66}
PeakBinSets ==
    {S \in SUBSET CandidateBins : Cardinality(S) <= MaxPeaks \/ DenseBins \subseteq S}

Profiles == {"flat", "falling", "rising", "quiet"}
Shapes == {"spike", "broad"}

RankIn(S, b) == Cardinality({x \in S : x <= b})
PeakAmplitude(profile, rank) ==
    CASE profile = "flat" -> 40
      [] profile = "falling" -> 60 - 2 * rank
      [] profile = "rising" -> 20 + 2 * rank
      [] profile = "quiet" -> amplitudeThreshold

\* A frame of fftSize / 2 bins with peaks at the bins S; in a broad frame the
\* lowest peak falls off slowly on its right.
FrameOf(S, profile, shape) ==
    LET lowest == CHOOSE b \in S : \A x \in S : b <= x
        shoulders == IF shape = "broad" /\ S # {} THEN {lowest + 1, lowest + 2} \ S
                     ELSE {}
    IN  [length |-> fftSize \div 2,
         bins |-> [b \in S \cup shoulders |->
                    IF b \in S THEN PeakAmplitude(profile, RankIn(S, b))
                    ELSE PeakAmplitude(profile, 1) - 4 - (b - lowest)]]

EmptyFrame == [length |-> 0, bins |-> <<>>]

\* Bin 66 is the eleventh harmonic of bin 6: a low note under a high one.
FarApartFrames == {FrameOf({6, 66}, profile, "spike") : profile \in Profiles}

ExtractorFrames ==
    {FrameOf(S, profile, shape) : S \in PeakBinSets, profile \in Profiles, shape \in Shapes}
        \cup FarApartFrames \cup {EmptyFrame}

ExtractorRates == {0} \cup SampleRates

DetectorIdle ==
    /\ chromaBuffer = <<>>
    /\ previousChroma = ZeroChroma
    /\ consecutiveChanges = 0
    /\ currentChord = "null"
    /\ chordConfidence = 0
    /\ chordStability = 0
    /\ returned = Null
    /\ vote = Null
    /\ run = NoRun
    /\ prevRun = NoRun
    /\ harmony = "none"
    /\ harmonyChanges = 0
    /\ steady = NoChange
    /\ gate = NoGate

NotPolled == [chord |-> "none", at |-> 0]

\* The renderer's ChordDetector after its constructor.
RendererIdle ==
    /\ now = 0
    /\ isRunning = FALSE
    /\ multiChordMode = TRUE
    /\ lastChordDetectionTime = 0
    /\ previousSpectrum = "null"
    /\ lastOnsetTime = 0
    /\ chordVotes = <<>>
    /\ currentStableChord = "null"
    /\ lastStableChordTime = 0
    /\ lastChord = "null"
    /\ chordBuffer = <<>>
    /\ currentDisplayedChord = "null"
    /\ sampled = 0
    /\ startedAt = 0
    /\ polled = NotPolled

\* AudioManager, and the ChordDetector with a tempo of its own, after their
\* constructors.
defaultBPM == 120
NoCall == [calls |-> 0, beat |-> FALSE, sinceBeat |-> 0, sinceSample |-> 0,
           sample |-> FALSE]
TempoIdle ==
    /\ beatHistory = <<>>
    /\ lastBeatTime = 0
    /\ bpm = defaultBPM
    /\ sampleInterval = 0
    /\ lastSampleTime = 0
    /\ clock = 0
    /\ tempoCall = NoCall

NoSpectrum == <<"null">>
NoOnsetCall == [frames |-> 0, onset |-> FALSE, frame |-> <<>>, before |-> NoSpectrum,
                sinceOnset |-> 0]
OnsetIdle ==
    /\ managerPreviousSpectrum = NoSpectrum
    /\ managerLastOnsetTime = 0
    /\ onsetTimes = <<>>
    /\ onsetCall = NoOnsetCall

ChromaIdle == calculatedChroma = <<>> /\ renormalized = <<"none">>

LoopIdle ==
    /\ starting = 0
    /\ timers = 0
    /\ scheduled = {}
    /\ animationId = 0
    /\ ticked = "none"

OtherIdle == TempoIdle /\ OnsetIdle /\ ChromaIdle /\ LoopIdle

ExtractorIdle ==
    sampleRate = 0 /\ frequencyData = EmptyFrame /\ extracted = FALSE /\ fundamentals = <<>>

ClassifierIdle == freq = 0 /\ note = NoNote /\ chromaIndex = NoIndex
MatcherIdle == notes = <<>> /\ matcher = "none" /\ chord = Null

(***************************************************************************)
(* The Pitch Classifier as a state machine: one frequency, classified by   *)
(* either front end.                                                       *)
(***************************************************************************)
ClassifierInit ==
    /\ RendererIdle
    /\ OtherIdle
    /\ freq \in ClassifierInputs
    /\ note = NoNote
    /\ chromaIndex = NoIndex
    /\ MatcherIdle
    /\ ExtractorIdle
    /\ DetectorIdle

Classify ==
    /\ note = NoNote
    /\ InClassifierRange(freq)
    /\ note' = frequencyToNoteWithOctave(freq)
    /\ UNCHANGED <<freq, chromaIndex, otherVars, matcherVars, extractorVars, detectorVars, rendererVars>>

ChromaIndex ==
    /\ chromaIndex = NoIndex
    /\ InChromaBand(freq)
    /\ chromaIndex' = <<frequencyToChromaIndex(freq)>>
    /\ UNCHANGED <<freq, note, otherVars, matcherVars, extractorVars, detectorVars, rendererVars>>

ClassifierNext == Classify \/ ChromaIndex

SpecClassifier == ClassifierInit /\ [][ClassifierNext]_vars

(***************************************************************************)
(* The Chord Matchers as a state machine: one list of detected notes,      *)
(* identified by either matcher.                                           *)
(***************************************************************************)
MatcherInit ==
    /\ RendererIdle
    /\ OtherIdle
    /\ notes \in NoteLists
    /\ matcher = "none"
    /\ chord = Null
    /\ ClassifierIdle
    /\ ExtractorIdle
    /\ DetectorIdle

IdentifyTemporal ==
    /\ matcher = "none"
    /\ matcher' = "temporal"
    /\ chord' = identifyChordWithTemporalAnalysis(
                    [i \in 1..Len(notes) |->
                        [note |-> notes[i].note, octave |-> notes[i].octave]])
    /\ UNCHANGED <<notes, classifierVars, otherVars, extractorVars, detectorVars, rendererVars>>

IdentifyImproved ==
    /\ matcher = "none"
    /\ matcher' = "improved"
    /\ chord' = improvedChordIdentification(SortByAmplitude(notes))
    /\ UNCHANGED <<notes, classifierVars, otherVars, extractorVars, detectorVars, rendererVars>>

MatcherNext == IdentifyTemporal \/ IdentifyImproved

SpecMatcher == MatcherInit /\ [][MatcherNext]_vars

(***************************************************************************)
(* The Extractor as a state machine: one frame at one sample rate.         *)
(***************************************************************************)
ExtractorInit ==
    /\ RendererIdle
    /\ OtherIdle
    /\ sampleRate \in ExtractorRates
    /\ frequencyData \in ExtractorFrames
    /\ extracted = FALSE
    /\ fundamentals = <<>>
    /\ ClassifierIdle
    /\ MatcherIdle
    /\ DetectorIdle

Extract ==
    /\ ~extracted
    /\ extracted' = TRUE
    /\ fundamentals' = findFundamentalFrequencies(frequencyData, sampleRate)
    /\ UNCHANGED <<sampleRate, frequencyData, classifierVars, otherVars, matcherVars, detectorVars, rendererVars>>

ExtractorNext == Extract

SpecExtractor == ExtractorInit /\ [][ExtractorNext]_vars

(***************************************************************************)
(* BrowserChordDetector as a state machine: frames arrive one by one, 400  *)
(* or 1000 ms apart, and detectChord runs on each; reset() may run between *)
(* them.                                                                   *)
(***************************************************************************)
DetectorInit ==
    /\ RendererIdle
    /\ OtherIdle
    /\ DetectorIdle
    /\ sampleRate = 44100
    /\ frequencyData = EmptyFrame
    /\ extracted = FALSE
    /\ fundamentals = <<>>
    /\ ClassifierIdle
    /\ MatcherIdle

\* detectChord on the next frame; the history of the change gate is kept
\* when observed is TRUE.
DetectChordOn(observed) ==
    \E h \in Harmonies, dt \in Intervals :
      LET changed == IF harmony # "none" /\ h # harmony THEN 1 ELSE 0
      IN
      /\ harmonyChanges + changed <= MaxHarmonyChanges
      /\ \E data \in FramesOf(h) :
          \E out \in {detectChord(data, sampleRate, dt, chromaBuffer, previousChroma,
                                   currentChord, chordConfidence, chordStability,
                                   consecutiveChanges)} :
            LET sameRun == out.vote # Null /\ out.vote.name = run.name
                newRun == out.vote # Null /\ out.vote.name # run.name
            IN  /\ out.state.consecutiveChanges <= MaxChanges
                /\ frequencyData' = data
                /\ chromaBuffer' = out.chromaBuffer
                /\ previousChroma' = out.previousChroma
                /\ consecutiveChanges' = out.state.consecutiveChanges
                /\ currentChord' = out.state.currentChord
                /\ chordConfidence' = out.state.chordConfidence
                /\ chordStability' = out.state.chordStability
                /\ returned' = out.returned
                /\ vote' = out.vote
                /\ run' = IF sameRun THEN [run EXCEPT !.count = Min(run.count + 1, MaxRun)]
                          ELSE IF newRun THEN [name |-> out.vote.name, count |-> 1]
                          ELSE run
                /\ prevRun' = IF newRun THEN run ELSE prevRun
                /\ harmony' = h
                /\ harmonyChanges' = harmonyChanges + changed
                /\ steady' = IF harmonyChanges + changed < MaxHarmonyChanges
                             THEN NoChange
                             ELSE IF out.returned.name = h THEN NoChange
                             ELSE IF changed = 1 THEN [after |-> harmony, frames |-> 1]
                             ELSE IF steady = NoChange THEN steady
                             ELSE [steady EXCEPT !.frames = Min(steady.frames + 1, MaxSteady)]
                /\ gate' = IF observed
                            THEN [significant |-> out.hasSignificantChange,
                                  exceeded |-> IF out.exceeded
                                               THEN Min(gate.exceeded + 1, minConsecutiveChanges)
                                               ELSE 0]
                            ELSE gate
                /\ UNCHANGED <<sampleRate, extracted, fundamentals, classifierVars, otherVars,
                               matcherVars, rendererVars>>

DetectChord == DetectChordOn(FALSE)

Reset ==
    /\ frequencyData # EmptyFrame
    /\ currentChord' = "null"
    /\ chordConfidence' = 0
    /\ chordStability' = 0
    /\ consecutiveChanges' = 0
    /\ chromaBuffer' = <<>>
    /\ previousChroma' = ZeroChroma
    /\ vote' = Null
    /\ run' = NoRun
    /\ prevRun' = NoRun
    /\ gate' = NoGate
    /\ UNCHANGED <<returned, harmony, harmonyChanges, steady, extractorVars,
                   classifierVars, otherVars, matcherVars, rendererVars>>

DetectorNext == DetectChord \/ Reset

SpecDetector == DetectorInit /\ [][DetectorNext]_vars

\* The same detector with the history of its change gate observed.
DetectChordObserved == DetectChordOn(TRUE)

GateNext == DetectChordObserved \/ Reset

SpecGate == DetectorInit /\ [][GateNext]_vars

(***************************************************************************)
(* The renderer's ChordDetector: its sampling policy and the stabilizer's  *)
(* lifecycle.  Time is performance.now() in ms; processAudio runs once per *)
(* animation frame.  What the matcher makes of a frame is an input: null,  *)
(* a chord, or a chord too weak to vote.  The ticker and the texts on      *)
(* display are left out; VST mode, which has no analyser, is left out too. *)
(***************************************************************************)
minDetectionInterval == 100
votingWindow == 500
stableChordThreshold == 6
maxBufferSize == 10
pollingInterval == 500
onsetCooldown == 50
voteConfidence == 500
displayDelay == 2000
displayTolerance == 100

\* What detectChord's matcher returns for the frame at hand.
MatcherOutcomes ==
    {Null,
     [name |-> "C", confidence |-> MajorConfidence],
     [name |-> "G", confidence |-> MajorConfidence],
     [name |-> "D", confidence |-> FallbackConfidence]}

\* Whether the frame's spectral flux exceeds detectOnset's threshold.
Fluxes == {"flat", "rise"}

\* votes.filter(time => time > currentTime - this.votingWindow)
RecentTimes(votes, currentTime) ==
    SelectSeq(votes, LAMBDA time : time > currentTime - votingWindow)

addChordVote(votesMap, chordName, currentTime) ==
    LET has == \E k \in 1..Len(votesMap) : votesMap[k].name = chordName
        withKey == IF has THEN votesMap
                   ELSE Append(votesMap, [name |-> chordName, votes |-> <<>>])
    IN  [k \in 1..Len(withKey) |->
            IF withKey[k].name = chordName
            THEN [name |-> chordName,
                  votes |-> RecentTimes(Append(withKey[k].votes, currentTime), currentTime)]
            ELSE withKey[k]]

\* The number of votes kept for each chord of the Map, recent or not.
AllCounts(votesMap, currentTime) ==
    [k \in 1..Len(votesMap) |-> Len(votesMap[k].votes)]

\* The number of recent votes of each chord of the Map, in its order.
RecentCounts(votesMap, currentTime) ==
    [k \in 1..Len(votesMap) |-> Len(RecentTimes(votesMap[k].votes, currentTime))]

getStableChord(votesMap, currentTime) ==
    LET counts == RecentCounts(votesMap, currentTime)
        totalVotes == SumSeq(counts)
        bestVoteCount == MaxValue(counts)
    IN  IF totalVotes > 0 /\ 10 * bestVoteCount >= stableChordThreshold * totalVotes
        THEN votesMap[CHOOSE k \in 1..Len(votesMap) :
                         /\ counts[k] = bestVoteCount
                         /\ \A j \in 1..(k - 1) : counts[j] < bestVoteCount].name
        ELSE "null"

addChordToBuffer(buffer, chordName, detectionTime) ==
    LET pushed == Append(buffer, [chord |-> chordName, detectionTime |-> detectionTime,
                                  playTime |-> detectionTime + displayDelay])
    IN  IF Len(pushed) > maxBufferSize THEN Tail(pushed) ELSE pushed

\* The chord updateDisplayWithDelayedChord finds due in the buffer: the
\* latest entry whose play time has come, "null" for none.
DueChord(buffer, currentTime) ==
    LET due == {k \in 1..Len(buffer) : buffer[k].playTime <= currentTime + displayTolerance}
    IN  IF due = {} THEN "null"
        ELSE buffer[CHOOSE k \in due : \A j \in due : j <= k].chord

\* One run of processAudio at time currentTime, in regular device mode, on
\* a frame of the given flux for which the matcher would return outcome.
processAudio(currentTime, flux, outcome) ==
    LET due == currentTime - lastChordDetectionTime > minDetectionInterval
        single == due /\ ~multiChordMode
        onsetDetected == /\ single
                         /\ previousSpectrum # "null"
                         /\ flux = "rise"
                         /\ currentTime - lastOnsetTime > onsetCooldown
        shouldSample == currentTime - lastChordDetectionTime > pollingInterval
        analysed == due /\ (multiChordMode \/ onsetDetected \/ shouldSample)
        detected == IF analysed THEN outcome ELSE Null
        voted == detected # Null /\ detected.confidence > voteConfidence
        votes == IF voted THEN addChordVote(chordVotes, detected.name, currentTime)
                 ELSE chordVotes
        stableChord == IF voted THEN getStableChord(votes, currentTime) ELSE "null"
        newStable == stableChord # "null" /\ stableChord # currentStableChord
        buffer == IF newStable
                  THEN addChordToBuffer(chordBuffer, detected.name, currentTime)
                  ELSE chordBuffer
        chordToDisplay == DueChord(buffer, currentTime)
    IN  /\ previousSpectrum' = IF single THEN "set" ELSE previousSpectrum
        /\ lastOnsetTime' = IF onsetDetected THEN currentTime ELSE lastOnsetTime
        /\ chordVotes' = votes
        /\ currentStableChord' = IF newStable THEN stableChord ELSE currentStableChord
        /\ lastStableChordTime' = IF newStable THEN currentTime ELSE lastStableChordTime
        /\ chordBuffer' = buffer
        /\ lastChord' = IF newStable THEN stableChord ELSE lastChord
        /\ lastChordDetectionTime' = IF due THEN currentTime ELSE lastChordDetectionTime
        /\ currentDisplayedChord' = IF chordToDisplay # "null" THEN chordToDisplay
                                    ELSE currentDisplayedChord
        /\ sampled' = IF analysed \/ ~isRunning THEN currentTime ELSE sampled
        /\ polled' = IF voted THEN [chord |-> stableChord, at |-> currentTime]
                      ELSE NotPolled

RendererInit ==
    /\ RendererIdle
    /\ OtherIdle
    /\ ClassifierIdle
    /\ MatcherIdle
    /\ ExtractorIdle
    /\ DetectorIdle

\* startDetection with a device selected and the capture granted: it ends
\* with the first run of processAudio.
StartDetection ==
    /\ ~isRunning
    /\ isRunning' = TRUE
    /\ startedAt' = now
    /\ \E flux \in Fluxes, outcome \in MatcherOutcomes : processAudio(now, flux, outcome)
    /\ UNCHANGED <<now, multiChordMode, classifierVars, otherVars, matcherVars, extractorVars,
                   detectorVars>>

StopDetection ==
    /\ isRunning
    /\ isRunning' = FALSE
    /\ lastChord' = "null"
    /\ polled' = NotPolled
    /\ UNCHANGED <<now, multiChordMode, lastChordDetectionTime, previousSpectrum,
                   lastOnsetTime, chordVotes, currentStableChord, lastStableChordTime,
                   chordBuffer, currentDisplayedChord, sampled, startedAt,
                   classifierVars, otherVars, matcherVars, extractorVars, detectorVars>>

ToggleMultiChordMode ==
    /\ multiChordMode' = ~multiChordMode
    /\ chordVotes' = <<>>
    /\ currentStableChord' = "null"
    /\ chordBuffer' = <<>>
    /\ sampled' = now
    /\ polled' = NotPolled
    /\ UNCHANGED <<now, isRunning, lastChordDetectionTime, previousSpectrum,
                   lastOnsetTime, lastStableChordTime, lastChord,
                   currentDisplayedChord, startedAt,
                   classifierVars, otherVars, matcherVars, extractorVars, detectorVars>>

\* The next animation frame: processAudio runs again, FramePeriod later.
ProcessAudio ==
    /\ isRunning
    /\ now + FramePeriod <= MaxTime
    /\ now' = now + FramePeriod
    /\ \E flux \in Fluxes, outcome \in MatcherOutcomes :
          processAudio(now + FramePeriod, flux, outcome)
    /\ UNCHANGED <<isRunning, multiChordMode, startedAt,
                   classifierVars, otherVars, matcherVars, extractorVars, detectorVars>>

\* Time passes while the detection is stopped.
Idle ==
    /\ ~isRunning
    /\ now + FramePeriod <= MaxTime
    /\ now' = now + FramePeriod
    /\ polled' = NotPolled
    /\ UNCHANGED <<isRunning, multiChordMode, lastChordDetectionTime, previousSpectrum,
                   lastOnsetTime, chordVotes, currentStableChord, lastStableChordTime,
                   lastChord, chordBuffer, currentDisplayedChord, sampled, startedAt,
                   classifierVars, otherVars, matcherVars, extractorVars, detectorVars>>

RendererNext ==
    StartDetection \/ StopDetection \/ ToggleMultiChordMode \/ ProcessAudio \/ Idle

SpecRenderer == RendererInit /\ [][RendererNext]_vars

\* The renderer on a display whose animation frames come VotePeriod apart:
\* every frame is past minDetectionInterval, so every frame can vote and the
\* voting window holds up to five votes.
ProcessNextFrame ==
    /\ isRunning
    /\ now + VotePeriod <= MaxVoteTime
    /\ now' = now + VotePeriod
    /\ \E flux \in Fluxes, outcome \in MatcherOutcomes :
          processAudio(now + VotePeriod, flux, outcome)
    /\ UNCHANGED <<isRunning, multiChordMode, startedAt,
                   classifierVars, otherVars, matcherVars, extractorVars, detectorVars>>

VotingNext ==
    StartDetection \/ StopDetection \/ ToggleMultiChordMode \/ ProcessNextFrame

SpecVoting == RendererInit /\ [][VotingNext]_vars

(***************************************************************************)
(* Tempo estimation and the sampling policy derived from it: detectBPM and *)
(* shouldSample of AudioManager, which the ChordDetector with a tempo of   *)
(* its own repeats word for word and runs on every frame it processes.     *)
(* Time is performance.now() in ms.  Whether the frame's RMS energy is     *)
(* above the beat threshold is an input.  sampleInterval, 60000/bpm ms, is *)
(* kept in thousandths of a ms, rounded down: a whole number of ms exceeds *)
(* the one exactly when it exceeds the other.                              *)
(***************************************************************************)
beatCooldown == 80
beatWindow == 4000
minBPM == 40
maxBPM == 200
beatTimeout == 2000
fixedSampleInterval == 500
msPerMinute == 60000

InsertAscending(sorted, x) ==
    LET smaller == {i \in 1..Len(sorted) : sorted[i] <= x}
        k == Cardinality(smaller)
    IN  SubSeq(sorted, 1, k) \o <<x>> \o SubSeq(sorted, k + 1, Len(sorted))

RECURSIVE SortAscendingFirst(_, _)
SortAscendingFirst(s, k) ==
    IF k = 0 THEN <<>> ELSE InsertAscending(SortAscendingFirst(s, k - 1), s[k])

SortAscending(s) == SortAscendingFirst(s, Len(s))

BeatIntervals(history) == [i \in 1..(Len(history) - 1) |-> history[i + 1] - history[i]]

\* Math.round(60000 / medianInterval)
RoundedBPM(medianInterval) == (2 * msPerMinute + medianInterval) \div (2 * medianInterval)

SampleIntervalOf(b) == (1000 * msPerMinute) \div b

RecentBeats(history, currentTime) ==
    SelectSeq(history, LAMBDA time : time > currentTime - beatWindow)

detectBPM(history, lastBeat, tempo, interval, loud, currentTime) ==
    LET beat == loud /\ currentTime - lastBeat > beatCooldown
        beats == IF beat THEN RecentBeats(Append(history, currentTime), currentTime)
                 ELSE history
        last == IF beat THEN currentTime ELSE lastBeat
        intervals == SortAscending(BeatIntervals(beats))
        medianInterval == At(intervals, Len(intervals) \div 2)
        calculatedBPM == RoundedBPM(medianInterval)
        estimated == /\ beat
                     /\ Len(beats) >= 2
                     /\ calculatedBPM >= minBPM
                     /\ calculatedBPM <= maxBPM
        timedOut == currentTime - last > beatTimeout /\ Len(beats) > 0
    IN  [beat |-> beat,
         lastBeatTime |-> last,
         beatHistory |-> IF timedOut THEN <<>> ELSE beats,
         bpm |-> IF timedOut THEN defaultBPM
                 ELSE IF estimated THEN calculatedBPM ELSE tempo,
         sampleInterval |-> IF timedOut THEN 0
                            ELSE IF estimated THEN SampleIntervalOf(calculatedBPM)
                            ELSE interval]

shouldSample(interval, lastSample, currentTime) ==
    IF interval = 0
    THEN currentTime - lastSample > fixedSampleInterval
    ELSE 1000 * (currentTime - lastSample) > interval

\* The time between two frames: beats closer than the cooldown, fast and
\* moderate beats, and a pause longer than the timeout.
FrameGaps == {50, 250, 500, 2100}

TempoInit ==
    /\ RendererIdle
    /\ OtherIdle
    /\ ClassifierIdle
    /\ MatcherIdle
    /\ ExtractorIdle
    /\ DetectorIdle

\* One frame of processAudio: detectBPM, then shouldSample.
TempoFrame ==
    \E gap \in FrameGaps, loud \in BOOLEAN :
      /\ tempoCall.calls < MaxCalls
      /\ clock' = clock + gap
      /\ \E out \in {detectBPM(beatHistory, lastBeatTime, bpm, sampleInterval,
                               loud, clock + gap)} :
           LET sample == shouldSample(out.sampleInterval, lastSampleTime, clock + gap)
           IN  /\ beatHistory' = out.beatHistory
               /\ lastBeatTime' = out.lastBeatTime
               /\ bpm' = out.bpm
               /\ sampleInterval' = out.sampleInterval
               /\ lastSampleTime' = IF sample THEN clock + gap ELSE lastSampleTime
               /\ tempoCall' = [calls |-> tempoCall.calls + 1,
                                beat |-> out.beat,
                                sinceBeat |-> clock + gap - lastBeatTime,
                                sinceSample |-> clock + gap - lastSampleTime,
                                sample |-> sample]
      /\ UNCHANGED <<onsetVars, chromaVars, loopVars, classifierVars, matcherVars, extractorVars,
                     detectorVars, rendererVars>>

TempoNext == TempoFrame

SpecTempo == TempoInit /\ [][TempoNext]_vars

(***************************************************************************)
(* Onset detection: detectOnset of AudioManager, which the renderer's      *)
(* ChordDetector repeats word for word.  Frames of FrameBins bins arrive   *)
(* 20 or 40 ms apart.  The flux is a sum of bin differences divided by the *)
(* number of bins; it exceeds 0.5 exactly when twice the sum exceeds the   *)
(* number of bins.                                                          *)
(***************************************************************************)
onsetThresholdHalves == 1       \* onsetThreshold 0.5, in halves
managerOnsetCooldown == 50

PositiveDifferences(frame, previous) ==
    [i \in 1..Len(frame) |-> IF frame[i] - previous[i] > 0 THEN frame[i] - previous[i] ELSE 0]

\* spectralFlux > onsetThreshold
FluxExceeds(frame, previous) ==
    2 * SumSeq(PositiveDifferences(frame, previous)) > onsetThresholdHalves * Len(frame)

CooledAlways(currentTime, lastOnset) == TRUE
Cooled(currentTime, lastOnset) == currentTime - lastOnset > managerOnsetCooldown

detectOnset(frame, previous, lastOnset, currentTime) ==
    IF previous = NoSpectrum
    THEN [onset |-> FALSE,
          previousSpectrum |-> [i \in 1..Len(frame) |-> 0],
          lastOnsetTime |-> lastOnset]
    ELSE LET onsetDetected == FluxExceeds(frame, previous) /\ Cooled(currentTime, lastOnset)
         IN  [onset |-> onsetDetected,
              previousSpectrum |-> frame,
              lastOnsetTime |-> IF onsetDetected THEN currentTime ELSE lastOnset]

BinLevels == {0, 1}
OnsetFrames == [1..FrameBins -> BinLevels]
OnsetGaps == {20, 40}

OnsetInit ==
    /\ RendererIdle
    /\ OtherIdle
    /\ ClassifierIdle
    /\ MatcherIdle
    /\ ExtractorIdle
    /\ DetectorIdle

\* detectOnset on the next frame.
DetectOnset ==
    \E gap \in OnsetGaps, frame \in OnsetFrames :
      /\ onsetCall.frames < MaxFrames
      /\ clock' = clock + gap
      /\ \E out \in {detectOnset(frame, managerPreviousSpectrum, managerLastOnsetTime,
                                 clock + gap)} :
           /\ managerPreviousSpectrum' = out.previousSpectrum
           /\ managerLastOnsetTime' = out.lastOnsetTime
           /\ onsetTimes' = IF out.onset THEN Append(onsetTimes, clock + gap) ELSE onsetTimes
           /\ onsetCall' = [frames |-> onsetCall.frames + 1,
                            onset |-> out.onset,
                            frame |-> frame,
                            before |-> managerPreviousSpectrum,
                            sinceOnset |-> clock + gap - managerLastOnsetTime]
      /\ UNCHANGED <<beatHistory, lastBeatTime, bpm, sampleInterval, lastSampleTime,
                     tempoCall, chromaVars, loopVars, classifierVars, matcherVars, extractorVars,
                     detectorVars, rendererVars>>

OnsetNext == DetectOnset

SpecOnset == OnsetInit /\ [][OnsetNext]_vars

(***************************************************************************)
(* The chroma vector's normalization: calculateChromaFromFrequency divides *)
(* the amplitude sums by their maximum, analyzeChromaForChord divides the  *)
(* vector it is handed by its maximum once more.  A quotient of floats is  *)
(* kept in thousandths, rounded to the nearest as the division of doubles  *)
(* rounds to the nearest double; the amplitude sums are kept in units of   *)
(* 1/255, as in the detector.                                              *)
(***************************************************************************)
Scale == 1000

\* x * (1 / y) instead
DivideByReciprocal(x, y) == (x * ((2 * Scale * Scale + y) \div (2 * y))) \div Scale
\* x / y, for y > 0 and x, y in one unit
Divide(x, y) == (2 * Scale * x + y) \div (2 * y)

\* the normalisation that ends calculateChromaFromFrequency
NormalizeChroma(sums) ==
    With(MaxValue(sums), LAMBDA maxValue :
        IF maxValue > 0 THEN [i \in 1..12 |-> Divide(sums[i], maxValue)] ELSE sums)

\* the normalisation that begins analyzeChromaForChord; <<>> when it returns
\* null before it
normalizedChroma(vector) ==
    With(MaxValue(vector), LAMBDA maxValue :
        IF maxValue = 0 THEN <<>> ELSE [i \in 1..12 |-> Divide(vector[i], maxValue)])

ChromaInit ==
    /\ RendererIdle
    /\ OtherIdle
    /\ sampleRate \in ExtractorRates
    /\ frequencyData \in ExtractorFrames
    /\ extracted = FALSE
    /\ fundamentals = <<>>
    /\ ClassifierIdle
    /\ MatcherIdle
    /\ DetectorIdle

CalculateChroma ==
    /\ calculatedChroma = <<>>
    /\ calculatedChroma' = NormalizeChroma(calculateChromaFromFrequency(frequencyData, sampleRate))
    /\ UNCHANGED <<renormalized, tempoVars, onsetVars, loopVars, classifierVars, matcherVars,
                   extractorVars, detectorVars, rendererVars>>

AnalyzeChroma ==
    /\ calculatedChroma # <<>>
    /\ renormalized = <<"none">>
    /\ renormalized' = normalizedChroma(calculatedChroma)
    /\ UNCHANGED <<calculatedChroma, tempoVars, onsetVars, loopVars, classifierVars, matcherVars,
                   extractorVars, detectorVars, rendererVars>>

ChromaNext == CalculateChroma \/ AnalyzeChroma

SpecChroma == ChromaInit /\ [][ChromaNext]_vars

(***************************************************************************)
(* The renderer's frame loop: startDetection, stopDetection, onDeviceChange *)
(* and the requestAnimationFrame callbacks of processAudio.  startDetection *)
(* is asynchronous: it waits for getUserMedia, and whatever else is called  *)
(* in the meantime runs before it goes on.  A callback is known by its id;  *)
(* an id is free for reuse once its callback has run or was cancelled.  An  *)
(* input device is selected and no VST plugin.                              *)
(***************************************************************************)
CallbackIds == 1..MaxCallbacks

\* The id requestAnimationFrame hands out while the callbacks S are scheduled.
FreeId(S) == CHOOSE id \in CallbackIds \ S : \A other \in CallbackIds \ S : id <= other

LoopRest ==
    UNCHANGED <<now, multiChordMode, lastChordDetectionTime, previousSpectrum,
                lastOnsetTime, chordVotes, currentStableChord, lastStableChordTime,
                lastChord, chordBuffer, currentDisplayedChord, sampled, startedAt, polled,
                tempoVars, onsetVars, chromaVars, classifierVars, matcherVars,
                extractorVars, detectorVars>>

\* The start button, on display while the detection is stopped, is clicked:
\* startDetection runs up to the await of getUserMedia.
BeginStart ==
    /\ ~isRunning
    /\ starting < MaxStarting
    /\ starting' = starting + 1
    /\ ticked' = "none"
    /\ UNCHANGED <<isRunning, timers, scheduled, animationId>>
    /\ LoopRest

\* getUserMedia is granted and startDetection runs to its end, the first
\* processAudio included.
FinishStart ==
    /\ starting > 0
    /\ scheduled # CallbackIds
    /\ starting' = starting - 1
    /\ isRunning' = TRUE
    /\ scheduled' = scheduled \cup {FreeId(scheduled)}
    /\ animationId' = FreeId(scheduled)
    /\ ticked' = "ran"
    /\ UNCHANGED timers
    /\ LoopRest

\* getUserMedia is refused: startDetection reports the error.
FailStart ==
    /\ starting > 0
    /\ starting' = starting - 1
    /\ ticked' = "none"
    /\ UNCHANGED <<isRunning, timers, scheduled, animationId>>
    /\ LoopRest

stopDetection ==
    /\ isRunning' = FALSE
    /\ scheduled' = IF animationId # 0 THEN scheduled \ {animationId} ELSE scheduled
    /\ animationId' = 0

\* The stop button, on display while the detection runs, is clicked.
StopLoop ==
    /\ isRunning
    /\ stopDetection
    /\ ticked' = "none"
    /\ UNCHANGED <<starting, timers>>
    /\ LoopRest

\* The input device is changed: a running detection is stopped and started
\* again 100 ms later, a stopped one is started.
OnDeviceChange ==
    /\ IF isRunning
       THEN /\ timers < MaxTimers
            /\ stopDetection
            /\ timers' = timers + 1
            /\ ticked' = "none"
            /\ UNCHANGED starting
       ELSE /\ starting < MaxStarting
            /\ starting' = starting + 1
            /\ ticked' = "none"
            /\ UNCHANGED <<isRunning, timers, scheduled, animationId>>
    /\ LoopRest

\* The 100 ms timer of onDeviceChange calls startDetection.
TimerFires ==
    /\ timers > 0
    /\ starting < MaxStarting
    /\ timers' = timers - 1
    /\ starting' = starting + 1
    /\ ticked' = "none"
    /\ UNCHANGED <<isRunning, scheduled, animationId>>
    /\ LoopRest

\* An animation frame: the callback id runs processAudio, which returns at
\* once when the detection is stopped and else requests the next frame.
AnimationFrame ==
    /\ \E id \in scheduled :
          /\ ticked' = IF isRunning THEN "ran" ELSE "returned"
          /\ IF isRunning
             THEN /\ scheduled' = (scheduled \ {id}) \cup {FreeId(scheduled \ {id})}
                  /\ animationId' = FreeId(scheduled \ {id})
             ELSE /\ scheduled' = scheduled \ {id}
                  /\ animationId' = animationId
          /\ UNCHANGED <<isRunning, starting, timers>>
    /\ LoopRest

LoopInit ==
    /\ RendererIdle
    /\ OtherIdle
    /\ ClassifierIdle
    /\ MatcherIdle
    /\ ExtractorIdle
    /\ DetectorIdle

LoopNext ==
    \/ BeginStart
    \/ FinishStart
    \/ FailStart
    \/ StopLoop
    \/ OnDeviceChange
    \/ TimerFires
    \/ AnimationFrame

SpecLoop == LoopInit /\ [][LoopNext]_vars

(***************************************************************************)
(* Properties of the Chord Matchers (SpecMatcher).                         *)
(***************************************************************************)
NoteNameSet(ns) == {ns[i].note : i \in 1..Len(ns)}

\* The pitch classes of the triad on root r (0 = C) with the given third.
TriadNotes(r, third) ==
    {At(noteNames, r), At(noteNames, (r + third) % 12), At(noteNames, (r + 7) % 12)}

\* C3: whenever identifyChordWithTemporalAnalysis receives notes whose pitch
\* classes are exactly those of a major triad, it returns the triad's name
\* with the exact-match confidence 0.9 (at least 0.85).
MajorTriadExactMatch ==
    \A r \in 0..11 :
        (matcher = "temporal" /\ NoteNameSet(notes) = TriadNotes(r, 4))
            => (chord.name = At(noteNames, r) /\ chord.confidence >= 850)

\* C4: whenever identifyChordWithTemporalAnalysis receives the pitch classes
\* of a minor triad under the classifier's sharps-only names, it returns the
\* minor chord's name with a confidence of at least 0.75.
MinorTriadExactMatch ==
    \A r \in 0..11 :
        (matcher = "temporal" /\ NoteNameSet(notes) = TriadNotes(r, 3))
            => (chord.name = At(noteNames, r) \o "m" /\ chord.confidence >= 750)

Permuted(ns, f) == [i \in 1..Len(ns) |-> ns[f[i]]]

\* C5: the matchers return the same chord name and confidence for every
\* permutation of the list of notes they were handed.
MatchOrderIndependent ==
    /\ matcher = "improved" =>
        \A f \in Permutations(1..Len(notes)) :
            improvedChordIdentification(Permuted(SortByAmplitude(notes), f)) = chord
    /\ matcher = "temporal" =>
        \A f \in Permutations(1..Len(notes)) :
            identifyChordWithTemporalAnalysis(Permuted(notes, f)) = chord

(***************************************************************************)
(* Properties of the Pitch Classifier (SpecClassifier).                    *)
(***************************************************************************)
\* C6: the frequency k semitones from 440 Hz, k in -48..48, is classified as
\* the name at index k mod 12 of the name table (an index in 0..11 for
\* negative k too, never undefined) in octave floor(k/12) + 4.
PitchRoundTrip ==
    \A k \in SemitoneOffsets :
        (freq = SemitoneFreq(k) /\ note # NoNote)
            => note = [note |-> noteNames[Mod12(k) + 1], octave |-> FloorDiv12(k) + 4]

\* A frequency 13 semitones below 440 Hz has been classified.
PitchRoundTripNegative ==
    freq = SemitoneFreq(-13) /\ note = [note |-> "B", octave |-> 2]

\* C7: 440 Hz is classified as A in octave 4, and the frequency k semitones
\* from 440 Hz as the pitch class k semitones from A.
ReferencedToA4 ==
    \A k \in SemitoneOffsets :
        (freq = SemitoneFreq(k) /\ note # NoNote)
            => /\ note.note = noteNames[Mod12(9 + k) + 1]
               /\ (k = 0 => note.octave = 4)

\* C8: the pitch class the Chroma Aggregator assigns to a frequency of its
\* band is the pitch class the Pitch Classifier assigns to it.
SamePitchMapping ==
    (note # NoNote /\ chromaIndex # NoIndex)
        => At(chromaNotes, chromaIndex[1]) = note.note

(***************************************************************************)
(* Properties of the Extractor (SpecExtractor).                            *)
(***************************************************************************)
PeakBins(data, rate) ==
    LET peaks == FindPeaks(data, rate) IN {peaks[k].bin : k \in 1..Len(peaks)}

\* C9: when the qualifying peaks of the frame are a bin and the bin at twice
\* its frequency, exactly the lower one is returned, whichever is louder.
OctavePairKeepsLower ==
    extracted =>
        \A b \in CandidateBins :
            PeakBins(frequencyData, sampleRate) = {b, 2 * b}
                => fundamentals = <<BinFrequency(b, sampleRate, frequencyData.length)>>

\* The upper peak of an octave pair was the louder one.
OctavePairUpperLouder ==
    /\ extracted
    /\ PeakBins(frequencyData, sampleRate) = {10, 20}
    /\ Data(frequencyData, 20) > Data(frequencyData, 10)
    /\ fundamentals = <<BinFrequency(10, sampleRate, frequencyData.length)>>

\* C10: the extractor returns at most 8 frequencies, strictly ascending, each
\* strictly between 50 Hz and 1500 Hz (so greater than 0, for a sample rate
\* of 0 and an empty frame too), and none when no bin exceeds the amplitude
\* threshold.
ExtractorContract ==
    extracted =>
        /\ Len(fundamentals) <= 8
        /\ \A k \in 1..(Len(fundamentals) - 1) : fundamentals[k] < fundamentals[k + 1]
        /\ \A k \in 1..Len(fundamentals) :
            fundamentals[k] > 50 * fftSize /\ fundamentals[k] < 1500 * fftSize
        /\ (\A b \in DOMAIN frequencyData.bins :
                frequencyData.bins[b] <= amplitudeThreshold) => fundamentals = <<>>

\* A frame with more than 8 peaks, none a harmonic of another, was cut to 8.
ExtractorCapReached ==
    /\ extracted
    /\ Len(FindPeaks(frequencyData, sampleRate)) > 8
    /\ Len(fundamentals) = 8

\* C11: no returned fundamental is a harmonic of another: for returned
\* frequencies a < b the ratio b/a is not within 0.1 of an integer.
NoHarmonicPairReturned ==
    extracted =>
        \A i, j \in 1..Len(fundamentals) :
            i < j => ~NearInteger(fundamentals[j], fundamentals[i])

(***************************************************************************)
(* Properties of BrowserChordDetector (SpecDetector).                      *)
(***************************************************************************)
RecentVotes(buffer) == Selected(buffer, IsRecent)
TotalScore(buffer) ==
    SumSeq([k \in 1..Len(RecentVotes(buffer)) |-> RecentVotes(buffer)[k].confidence])

\* A vote was cast for a chord other than the stable one and its share of
\* the recent votes' confidence is below 0.6.
WeakVoteAgainst ==
    /\ vote' # Null
    /\ vote'.name # currentChord
    /\ 10 * ScoreOf(RecentVotes(chromaBuffer'), vote'.name) < 6 * TotalScore(chromaBuffer')

\* C1: a vote for another chord whose dominance among the recent votes is
\* below 0.6 (after ten votes in a row for the stable chord, or any other
\* history) leaves currentChord, chordStability and chordConfidence as they
\* were and the stable chord is returned; and by the tenth vote in a row for
\* one chord that chord is the stable chord and is the one returned.
StabilizerHysteresis ==
    /\ [][WeakVoteAgainst =>
            /\ currentChord' = currentChord
            /\ chordStability' = chordStability
            /\ chordConfidence' = chordConfidence
            /\ returned' = [name |-> currentChord, confidence |-> chordConfidence]]_vars
    /\ []((vote # Null /\ run.count >= 10) =>
            (currentChord = vote.name /\ returned.name = vote.name))

\* Ten votes in a row for C, then a vote for G that left C in place, then a
\* second vote for G on which the stabilizer switched to G.
HeldThenSwitched ==
    /\ prevRun = [name |-> "C", count |-> 10]
    /\ run = [name |-> "G", count |-> 2]
    /\ vote.name = "G"
    /\ currentChord = "G"
    /\ chordStability = 1
    /\ returned.name = "G"

\* C2: detectChord on an all-zero frame returns null, in every state of the
\* detector.
SilenceYieldsNoChord ==
    (IsSilent(frequencyData) /\ harmony = "silence") => returned = Null

\* C12: a chord that has newly taken over from a stable chord is not
\* returned until its stability has reached minStability; on the ticks
\* before that the previously stable chord is returned.
ReportedOnlyWhenStable ==
    (/\ vote # Null
     /\ prevRun.count >= minStability
     /\ currentChord = run.name
     /\ chordStability < minStability)
        => returned.name = prevRun.name

\* C13: once every vote has aged out of the recency window and the frames
\* are silent, detectChord no longer reports the chord: it returns null.
SilenceDecaysToNoChord ==
    (/\ IsSilent(frequencyData)
     /\ harmony = "silence"
     /\ vote = Null
     /\ \A k \in 1..Len(chromaBuffer) : chromaBuffer[k].age >= recentWindow)
        => returned = Null


\* C14: the change gate never suppresses the Matcher forever: when the input
\* has switched from one of the triads to the other and stays on it,
\* detectChord returns the new chord on one of the first MaxSteady frames;
\* steady never counts MaxSteady frames on which it has not.
GateNeverSuppressesForever ==
    (harmony \in {"C", "G"} /\ steady.after \in {"C", "G"})
        => steady.frames < MaxSteady

\* C15: in single-chord mode the matcher runs at least once in every span
\* of the polling interval plus one detection interval (and the frame in
\* which that falls), whether or not an onset fires.
MatcherSampledEveryPollingSpan ==
    (isRunning /\ ~multiChordMode)
        => now - sampled <= pollingInterval + minDetectionInterval + FramePeriod

\* C20: while the detection runs, nothing of an earlier session remains in
\* the stabilizer: every vote, every entry of the delayed chord buffer and
\* the current stable chord date from the present session.
StabilizerFreshAfterRestart ==
    isRunning =>
        /\ \A k \in 1..Len(chordVotes) :
              \A i \in 1..Len(chordVotes[k].votes) : chordVotes[k].votes[i] >= startedAt
        /\ \A k \in 1..Len(chordBuffer) : chordBuffer[k].detectionTime >= startedAt
        /\ currentStableChord # "null" => lastStableChordTime >= startedAt

\* C16: whenever the sorted unique pitch classes of the detected notes are a
\* key of identifyChordByPattern's table, improvedChordIdentification
\* returns the chord that table names for the key.
ExactKeyNamesChord ==
    (/\ matcher = "improved"
     /\ ExactEntries(improvedPatterns, UniqueNotes(notes)) # {})
        => chord.name
             = improvedPatterns[FirstOf(ExactEntries(improvedPatterns, UniqueNotes(notes)))].name

\* No chord of the matcher's vocabulary qualifies for the notes: no exact
\* and no partial match, and for the improved matcher no interval pattern.
NothingQualifies ==
    LET uniqueNotes == UniqueNotes(notes)
    IN  IF matcher = "temporal"
        THEN /\ ExactEntries(chordPatterns, uniqueNotes) = {}
             /\ \A p \in 1..Len(chordPatterns) :
                    MatchingNotes(uniqueNotes, chordPatterns[p].key) < 2
        ELSE /\ identifyChordByIntervals(uniqueNotes) = Null
             /\ identifyChordByPattern(uniqueNotes) = Null

\* The pitch classes of the detected notes of largest amplitude.
LoudestNotes ==
    {notes[i].note : i \in {j \in 1..Len(notes) :
                                \A k \in 1..Len(notes) :
                                    notes[k].amplitude <= notes[j].amplitude}}

\* C17: when no vocabulary chord qualifies for two or more detected notes,
\* the matcher returns the strongest detected note as a bare pitch-class
\* chord with a fixed confidence between 0.3 and 0.4.
FallbackIsStrongestNote ==
    (matcher # "none" /\ Len(notes) >= 2 /\ NothingQualifies)
        => /\ chord.name \in LoudestNotes
           /\ chord.confidence \in FallbackConfidence..StrongestNoteConfidence

\* C18: notes of fewer than two distinct pitch classes (none at all when
\* the frame has no peaks) yield no chord: the matcher returns null.
InsufficientEvidenceYieldsNull ==
    (/\ matcher # "none"
     /\ Cardinality({notes[i].note : i \in 1..Len(notes)}) < 2)
        => chord = Null

\* The detected pitch classes are two of the three notes of a triad of the
\* vocabulary table.
TwoOfATriad(table) ==
    /\ Len(UniqueNotes(notes)) = 2
    /\ \E p \in 1..Len(table) :
          /\ Len(table[p].key) = 3
          /\ Range(UniqueNotes(notes)) \subseteq Range(table[p].key)

\* C19: for two notes of a vocabulary triad the matcher names a triad of
\* which both notes are part, with a confidence strictly below that
\* chord's exact-match confidence.
PartialMatchDegrades ==
    /\ (matcher = "temporal" /\ TwoOfATriad(chordPatterns)) =>
          \E q \in 1..Len(chordPatterns) :
              /\ chordPatterns[q].name = chord.name
              /\ Range(UniqueNotes(notes)) \subseteq Range(chordPatterns[q].key)
              /\ chord.confidence < chordPatterns[q].confidence
    /\ (matcher = "improved" /\ TwoOfATriad(improvedPatterns)) =>
          \E q \in 1..Len(improvedPatterns) :
              /\ improvedPatterns[q].name = chord.name
              /\ Len(improvedPatterns[q].key) = 3
              /\ Range(UniqueNotes(notes)) \subseteq Range(improvedPatterns[q].key)
              /\ chord.confidence < ExactPatternConfidence

\* C and E without G, named C by the improved matcher at two thirds of 0.7.
PartialMatchOfCAndE ==
    /\ matcher = "improved"
    /\ UniqueNotes(notes) = <<"C", "E">>
    /\ chord = [name |-> "C", confidence |-> 466]

(***************************************************************************)
(* Properties of the tempo estimation (SpecTempo).                         *)
(***************************************************************************)
AllButOne(intervals, r) ==
    Cardinality({k \in 1..Len(intervals) : intervals[k] # r}) <= 1

\* C21: whenever detectBPM records a beat and the beats it keeps are at least
\* three intervals apart of which at most one differs from the regular one,
\* the tempo is the one of the regular interval, which is the median: bpm is
\* 60000 over that interval, rounded and kept within 40..200, and
\* sampleInterval is 60000/bpm.
MedianTempoDerived ==
    (tempoCall.beat /\ Len(beatHistory) >= 4) =>
        \A r \in Range(BeatIntervals(beatHistory)) :
            AllButOne(BeatIntervals(beatHistory), r) =>
                /\ bpm = Max(minBPM, Min(maxBPM, RoundedBPM(r)))
                /\ sampleInterval = SampleIntervalOf(bpm)

\* C22: whenever detectBPM is called more than 2000 ms after the last beat
\* detected before the call, it returns with bpm at the default 120 and
\* sampleInterval at 0, so that shouldSample samples every 500 ms.
BeatTimeoutResets ==
    (tempoCall.calls > 0 /\ tempoCall.sinceBeat > beatTimeout) =>
        /\ bpm = defaultBPM
        /\ sampleInterval = 0
        /\ tempoCall.sample = (tempoCall.sinceSample > fixedSampleInterval)

ChromaNormalizedOnce ==
    /\ calculatedChroma # <<>> =>
          /\ Len(calculatedChroma) = 12
          /\ \A i \in 1..12 : calculatedChroma[i] >= 0 /\ calculatedChroma[i] <= Scale
          /\ IF \A i \in 1..12 : calculateChromaFromFrequency(frequencyData, sampleRate)[i] = 0
             THEN \A i \in 1..12 : calculatedChroma[i] = 0
             ELSE \E i \in 1..12 : calculatedChroma[i] = Scale
    /\ Len(renormalized) = 12 => renormalized = calculatedChroma
    /\ renormalized = <<>> => \A i \in 1..12 : calculatedChroma[i] = 0

RenormalizedUnevenChroma ==
    /\ Len(renormalized) = 12
    /\ Cardinality({renormalized[i] : i \in 1..12} \ {0, Scale}) >= 2

(***************************************************************************)
(* Properties of the renderer's vote window (SpecRenderer).                *)
(***************************************************************************)
\* The votes for the k-th chord of the Map cast within the voting window
\* before the time getStableChord was called.
VotesInWindow(k) ==
    Cardinality({i \in 1..Len(chordVotes[k].votes) :
                    chordVotes[k].votes[i] > polled.at - 500})

AllVotesInWindow == SumSeq([k \in 1..Len(chordVotes) |-> VotesInWindow(k)])

\* C25: getStableChord(t) returns a chord only if that chord holds at least
\* 60% of all the votes cast within the 500 ms before t, older votes counting
\* for no chord, and returns null when no chord holds that share.
StableChordDominates ==
    /\ polled.chord \notin {"none", "null"} =>
          \E k \in 1..Len(chordVotes) :
              /\ chordVotes[k].name = polled.chord
              /\ 10 * VotesInWindow(k) >= 6 * AllVotesInWindow
              /\ VotesInWindow(k) > 0
    /\ polled.chord = "null" =>
          \A k \in 1..Len(chordVotes) :
              VotesInWindow(k) = 0 \/ 10 * VotesInWindow(k) < 6 * AllVotesInWindow

\* a chord is returned while another chord's votes, all out of the window,
\* are still in the Map
StableDespiteOldVotes ==
    /\ polled.chord \notin {"none", "null"}
    /\ \E k \in 1..Len(chordVotes) :
          /\ chordVotes[k].name # polled.chord
          /\ Len(chordVotes[k].votes) > 0
          /\ VotesInWindow(k) = 0

\* C26: chordStability stays within 0..20 and the vote buffer within 8
\* entries; an accepted vote for the current chord raises chordStability by
\* one, up to 20, and does not lower chordConfidence; an accepted vote for
\* another chord whose dominance among the recent votes is at least 0.6 makes
\* it the current chord, with chordStability 1 and consecutiveChanges 0.
StabilizerCounters ==
    /\ [](chordStability \in 0..20 /\ Len(chromaBuffer) <= 8)
    /\ [][(vote' # Null /\ vote'.name = currentChord) =>
            /\ chordStability' = Min(chordStability + 1, 20)
            /\ chordConfidence' >= chordConfidence
            /\ currentChord' = currentChord]_vars
    /\ [][(/\ vote' # Null
           /\ vote'.name # currentChord
           /\ 10 * ScoreOf(RecentVotes(chromaBuffer'), vote'.name) >= 6 * TotalScore(chromaBuffer')) =>
            /\ currentChord' = vote'.name
            /\ chordStability' = 1
            /\ chordConfidence' = vote'.confidence
            /\ consecutiveChanges' = 0]_vars

\* the counter at its cap after a vote for the current chord, the buffer full
StabilityAtCap ==
    /\ chordStability = 20
    /\ vote # Null
    /\ vote.name = currentChord
    /\ Len(chromaBuffer) = 8

(***************************************************************************)
(* Properties of the change gate (SpecGate).                               *)
(***************************************************************************)
\* C27: detectSpectralChange reports a significant change on a frame only if
\* the chroma's cosine distance to the previous frame exceeded 0.15 on that
\* frame and on each of the two frames before it.
SignificantAfterThreeInARow ==
    gate.significant => gate.exceeded >= 3

(***************************************************************************)
(* Properties of the extractor's harmonic filter (SpecExtractor).          *)
(***************************************************************************)
\* The fundamentals after the outer loop has handled the first n peaks.
RECURSIVE FundamentalsAfter(_, _)
FundamentalsAfter(peaks, n) ==
    IF n = 0 THEN <<>>
    ELSE LET funds == FundamentalsAfter(peaks, n - 1)
         IN  IF Len(funds) < 8 THEN AcceptPeak(funds, peaks[n]) ELSE funds

\* C28: whenever the peak the loop handles is lower in frequency than an
\* accepted fundamental whose frequency is within tolerance of an integer
\* multiple of the peak's, the peak takes that fundamental's place in the
\* list; it is not discarded as a harmonic.
LowerCandidateReplaces ==
    extracted =>
        LET peaks == SortByAmplitude(FindPeaks(frequencyData, sampleRate))
        IN  \A n \in 1..Len(peaks) :
              LET funds == FundamentalsAfter(peaks, n - 1)
              IN  Len(funds) < 8 =>
                    \A j \in 1..Len(funds) :
                        (/\ peaks[n].frequency < funds[j].frequency
                         /\ NearInteger(funds[j].frequency, peaks[n].frequency))
                            => FundamentalsAfter(peaks, n)[j] = peaks[n]

(***************************************************************************)
(* Properties of the renderer's frame loop (SpecLoop).                     *)
(***************************************************************************)
\* C29: at most one frame loop is live: whatever the order of the calls of
\* startDetection (those of the device-change handler and its timer too) and
\* of stopDetection, there are never two callbacks of processAudio requested
\* at once, and a callback that runs while the detection is stopped does not
\* run the pipeline.
SingleFrameLoop ==
    /\ Cardinality(scheduled) <= 1
    /\ ticked = "ran" => isRunning

(***************************************************************************)
(* Properties of the renderer's stable chord and its delayed display       *)
(* (SpecVoting).                                                           *)
(***************************************************************************)
\* C30: display and ticker agree: every run of processAudio that records a
\* new stable chord appends to the delayed display buffer a chord of the same
\* name, so after every tick that changes currentStableChord the last chord
\* of the buffer bears the name of currentStableChord.
BufferedChordIsStableChord ==
    [][(currentStableChord' # currentStableChord /\ currentStableChord' # "null")
          => /\ chordBuffer' # <<>>
             /\ chordBuffer'[Len(chordBuffer')].chord = currentStableChord']_vars

====
